---- MODULE Spec2Model ----
(***************************************************************************)
(* free-agent: the session loop (agent/brain.py run_session), the tool     *)
(* dispatcher (agent/brain.py dispatch_tool), the session rows of the      *)
(* memory store (agent/memory.py start_session / end_session) and the      *)
(* caller of the loop (agent/main.py _run_one_session).                    *)
(*                                                                         *)
(* One session is modelled from the empty sessions table.  The language    *)
(* model, the tool adapters, the database and the blog are the             *)
(* environment: every completion request may raise or return any response  *)
(* (stop reason and content blocks) within the bounds below, and every     *)
(* handler, persistence step and publish step may return or raise.         *)
(*                                                                         *)
(* Spec / FairSpec: one session.  SpecLoop: main's loop mode, session      *)
(* after session on the same database.  SpecMem: the memories table and    *)
(* the semantic index under remember, recall, get_all_memories and         *)
(* delete_memory (agent/memory.py), where every index operation may return *)
(* or raise.  SpecRem: the reminders table under set_reminder,             *)
(* get_due_reminders and mark_reminders_triggered.  SpecMain: the due       *)
(* reminders _run_one_session reads, marks and passes on, session after    *)
(* session.  SpecPosts: the posts table under save_post and read_post.     *)
(* SpecMail: the emails table under read_inbox and reply_email.            *)
(* SpecTools: the names of TOOLS against dispatch_tool's branches, and     *)
(* the tool registry (agent/tools/registry.py).  SpecProc: the index       *)
(* handle and init_db over processes that follow one another on the same   *)
(* database and index directory.                                           *)
(***************************************************************************)
EXTENDS Integers, Sequences, FiniteSets, TLC

\* ---------------------------------------------------------------- bounds
\* brain.py:24 reads MAX_TURNS from the environment (default 20); the model
\* runs the loop with a small value.
MAX_TURNS == 2
\* most content blocks in one model response
MaxBlocks == 3
\* most content blocks over all the responses of a session
MaxTotalBlocks == 3

\* ---------------------------------------------------------------- values
\* SQL NULL / Python None, and a present value
Null == <<>>
Some(v) == <<v>>

\* summaries the agent may pass to end_session
Summaries == {"s1", "s2"}

NoSummary == "Session ended without summary."
TurnLimitSummary == "Session ended at turn limit."

StopReasons == {"end_turn", "tool_use", "max_tokens"}

\* A Python dict with string keys is a set of <<key, value>> pairs.
HasKey(d, k) == \E p \in d : p[1] = k
GetKey(d, k) == (CHOOSE p \in d : p[1] = k)[2]
\* dict.get(k, default)
GetOr(d, k, default) == IF HasKey(d, k) THEN GetKey(d, k) ELSE default
\* str(KeyError(k))
KeyErrorMsg(k) == "'" \o k \o "'"

\* The (name, input) pairs a tool_use block of a response may carry: a tool
\* with its required input, a name the dispatcher does not know, end_session
\* with and without its summary.
ToolCalls ==
    {<<"web_search", {<<"query", "q">>}>>, <<"nonexistent_tool", {}>>, <<"end_session", {}>>}
    \cup {<<"end_session", {<<"summary", s>>}>> : s \in Summaries}

TextBlock == [type |-> "text", id |-> Null, name |-> "", input |-> {}]
ToolUseBlock(id, call) == [type |-> "tool_use", id |-> id, name |-> call[1], input |-> call[2]]

\* what a response's block list is drawn from, before ids are given
BlockChoices == {<<"text">>} \cup {<<"tool_use", c>> : c \in ToolCalls}

\* the content of the response to completion request number t: block i of it
\* has the id <<t, i>>
MakeContent(t, choice) ==
    [i \in 1..Len(choice) |->
        IF choice[i][1] = "text" THEN TextBlock ELSE ToolUseBlock(<<t, i>>, choice[i][2])]

ContentChoices(n) == UNION {[1..k -> BlockChoices] : k \in 0..n}

Min(a, b) == IF a < b THEN a ELSE b

\* ---------------------------------------------------------------- memory store
\* json.dumps(actions): each Action {"tool": .., "inputs": ..} becomes the
\* text of one JSON object; the stored column is a snapshot of the list as it
\* is at the call.
JsonDumps(acts) == [i \in 1..Len(acts) |-> <<"tool", acts[i].tool, "inputs", acts[i].inputs>>]
JsonLoads(js) == [i \in 1..Len(js) |-> [tool |-> js[i][2], inputs |-> js[i][4]]]

\* INSERT INTO sessions (started_at, actions_json) VALUES (now, "[]"): the new
\* row's id is one more than the largest id (AUTOINCREMENT), ended_at and
\* summary are NULL.
NewSessionId(tbl) == Len(tbl) + 1
InsertSession(tbl, now) ==
    Append(tbl, [started_at |-> now, ended_at |-> Null, summary |-> Null,
                 actions_json |-> JsonDumps(<<>>)])

\* (variant: the UPDATE leaves actions_json as it is)
MemEndSession_KeepsActions(tbl, sid, summary, acts, now) ==
    [i \in 1..Len(tbl) |->
        IF i = sid
        THEN [tbl[i] EXCEPT !.ended_at = Some(now), !.summary = Some(summary)]
        ELSE tbl[i]]

\* UPDATE sessions SET ended_at=?, summary=?, actions_json=? WHERE id=?
MemEndSession(tbl, sid, summary, acts, now) ==
    [i \in 1..Len(tbl) |->
        IF i = sid
        THEN [tbl[i] EXCEPT !.ended_at = Some(now), !.summary = Some(summary),
                            !.actions_json = JsonDumps(acts)]
        ELSE tbl[i]]

\* ---------------------------------------------------------------- memories
\* most memories.remember calls in a run (ids are never reused, so this is
\* also the largest id)
MaxMemories == 2

\* the arguments the agent passes to remember
Categories == {"fact", "goal"}
Contents == {"sky", "sea"}
ImportanceInputs == {-2, 0, 1, 3, 5, 6, 9}

Max(a, b) == IF a > b THEN a ELSE b

\* (variant: only the upper limit is applied)
Clamp_UpperOnly(v) == Min(5, v)

\* importance = max(1, min(5, importance))
Clamp(v) == Max(1, Min(5, v))

\* str(mid), the id under which a memory is indexed, and int(ids[i])
Str(n) == ToString(n)
ParseInt(s) == CHOOSE n \in 0..(MaxMemories + 1) : ToString(n) = s

\* a row of the memories table
MemoryRow(id, category, content, importance, now) ==
    [id |-> id, category |-> category, content |-> content,
     importance |-> importance, created_at |-> now]

\* an entry of the "memories" collection of the semantic index
ChromaEntry(id, document, category, importance) ==
    [id |-> id, document |-> document,
     metadata |-> [category |-> category, importance |-> importance]]

\* col.add(ids=[id], documents=[..], metadatas=[..]): remember only ever adds
\* the id of a row it has just inserted, which no entry has yet
ChromaAdd(col, e) == col \cup {e}

\* (variant: the index entry is left in place)
ChromaDelete_Noop(col, id) == col

\* col.delete(ids=[id])
ChromaDelete(col, id) == {e \in col : e.id # id}

\* (variant: the DELETE is taken to have hit a row whatever the id)
RowCount_AlwaysOne(tbl, id) == 1

\* DELETE FROM memories WHERE id=?, and its cur.rowcount
DeleteRow(tbl, id) == SelectSeq(tbl, LAMBDA r : r.id # id)
RowCount(tbl, id) == Cardinality({i \in 1..Len(tbl) : tbl[i].id = id})

\* ---------------------------------------------------------------- dispatcher
\* What the environment does during one dispatch_tool call: the tool adapter
\* returns or raises, mem.end_session commits or raises, push_session_summary
\* returns or raises.
HandlerOutcomes == {"ok", "raise"}
Outcomes == [handler : HandlerOutcomes, db : HandlerOutcomes, push : HandlerOutcomes]
AllOk == [handler |-> "ok", db |-> "ok", push |-> "ok"]

\* the outcomes that differ for a call: only the steps the call reaches count
OutcomesFor(name, inputs) ==
    IF name = "web_search"
    THEN {o \in Outcomes : o.db = "ok" /\ o.push = "ok"}
    ELSE IF name = "end_session" /\ HasKey(inputs, "summary")
    THEN {o \in Outcomes : o.handler = "ok" /\ (o.db = "raise" => o.push = "ok")}
    ELSE {AllOk}

\* the names dispatch_tool's if/elif chain has a branch for (those modelled)
DispatchNames == {"web_search", "end_session"}

\* json.dumps(result, indent=2) of the adapter's result
JsonText(r) == "\"" \o r \o "\""

UnknownToolText(name) == "Unknown tool: " \o name
ToolErrorText(name, m) == "Tool error (" \o name \o "): " \o m

\* How a branch of the try block ends: by return (text, should_exit) or by an
\* exception with message msg.  persist is the summary mem.end_session
\* committed during the branch (Null when it committed nothing), pushed tells
\* whether push_session_summary published it.
Returned(text, exit, persist, pushed) ==
    [kind |-> "return", text |-> text, exit |-> exit, msg |-> "",
     persist |-> persist, pushed |-> pushed]
Raised(m) ==
    [kind |-> "raise", text |-> "", exit |-> FALSE, msg |-> m,
     persist |-> Null, pushed |-> FALSE]

\* (variant: the handler is looked up in a dict, and the lookup of a name that
\* is not in it raises KeyError inside the try block)
UnknownBranch_LookupRaises(name) == Raised(KeyErrorMsg(name))

\* the else branch of the chain
UnknownBranch(name) == Returned(UnknownToolText(name), FALSE, Null, FALSE)

\* the web_search branch
WebSearchBranch(inputs, o) ==
    IF ~HasKey(inputs, "query") THEN Raised(KeyErrorMsg("query"))
    ELSE IF o.handler = "raise" THEN Raised("Boom")
    ELSE Returned(JsonText("r"), FALSE, Null, FALSE)

\* (variant: push_session_summary is called without its own try/except, so its
\* exception reaches dispatch_tool's except clause after the UPDATE committed)
EndSessionBranch_PushUnguarded(inputs, o) ==
    IF ~HasKey(inputs, "summary") THEN Raised(KeyErrorMsg("summary"))
    ELSE IF o.db = "raise" THEN Raised("database is locked")
    ELSE IF o.push = "raise"
    THEN [kind |-> "raise", text |-> "", exit |-> FALSE, msg |-> "push failed",
          persist |-> Some(GetKey(inputs, "summary")), pushed |-> FALSE]
    ELSE Returned(GetKey(inputs, "summary"), TRUE, Some(GetKey(inputs, "summary")), TRUE)

\* (variant: a failure of mem.end_session is swallowed like a failure of
\* push_session_summary, and the branch still returns (summary, True))
EndSessionBranch_SwallowsDbError(inputs, o) ==
    IF ~HasKey(inputs, "summary") THEN Raised(KeyErrorMsg("summary"))
    ELSE IF o.db = "raise" THEN Returned(GetKey(inputs, "summary"), TRUE, Null, FALSE)
    ELSE Returned(GetKey(inputs, "summary"), TRUE, Some(GetKey(inputs, "summary")),
                  o.push = "ok")

\* the end_session branch: inputs["summary"] is evaluated first, then
\* mem.end_session (a failure rolls its UPDATE back), then
\* push_session_summary inside its own try/except
EndSessionBranch(inputs, o) ==
    IF ~HasKey(inputs, "summary") THEN Raised(KeyErrorMsg("summary"))
    ELSE IF o.db = "raise" THEN Raised("database is locked")
    ELSE Returned(GetKey(inputs, "summary"), TRUE, Some(GetKey(inputs, "summary")),
                  o.push = "ok")

\* the body of dispatch_tool's try block
TryBody(name, inputs, o) ==
    IF name = "web_search" THEN WebSearchBranch(inputs, o)
    ELSE IF name = "end_session" THEN EndSessionBranch(inputs, o)
    ELSE UnknownBranch(name)

\* (variant: the error text does not name the tool)
ExceptClause_NoName(name, body) ==
    [text |-> "Tool error: " \o body.msg, exit |-> FALSE, exc |-> Some(body.msg),
     propagated |-> FALSE, persist |-> body.persist, pushed |-> body.pushed]

\* (variant: the except clause re-raises, so the exception leaves dispatch_tool)
ExceptClause_Reraises(name, body) ==
    [text |-> ToolErrorText(name, body.msg), exit |-> FALSE, exc |-> Some(body.msg),
     propagated |-> TRUE, persist |-> body.persist, pushed |-> body.pushed]

\* except Exception as e: return f"Tool error ({name}): {e}", False
ExceptClause(name, body) ==
    [text |-> ToolErrorText(name, body.msg), exit |-> FALSE, exc |-> Some(body.msg),
     propagated |-> FALSE, persist |-> body.persist, pushed |-> body.pushed]

\* dispatch_tool after its actions.append: the value it returns, the exception
\* it caught (Null when none), whether an exception left it, and what it did to
\* the store and the blog
DispatchTool(name, inputs, o) ==
    LET body == TryBody(name, inputs, o)
    IN  IF body.kind = "raise"
        THEN ExceptClause(name, body)
        ELSE [text |-> body.text, exit |-> body.exit, exc |-> Null,
              propagated |-> FALSE, persist |-> body.persist, pushed |-> body.pushed]

\* ---------------------------------------------------------------- run_session
\* (variant: range(MAX_TURNS + 1))
LoopHasNext_OffByOne(t) == t <= MAX_TURNS

\* for turn in range(MAX_TURNS): t requests were issued so far
LoopHasNext(t) == t < MAX_TURNS

\* if block.type != "tool_use": continue
IsToolUse(block) == block.type = "tool_use"

\* the position of the first block at or after i that the for loop dispatches
\* (Len(content) + 1 when the loop is over)
NextIdx(content, i) ==
    IF \E j \in i..Len(content) : IsToolUse(content[j])
    THEN CHOOSE j \in i..Len(content) :
            /\ IsToolUse(content[j])
            /\ \A k \in i..(j - 1) : ~IsToolUse(content[k])
    ELSE Len(content) + 1

\* (variant: the for loop is left as soon as a call returns should_exit)
AfterCall_BreakOnExit(content, i, should_exit) ==
    IF should_exit THEN Len(content) + 1 ELSE NextIdx(content, i + 1)

\* where the for loop goes after the call at position i returned should_exit:
\* on to the next block, whatever should_exit is
AfterCall(content, i, should_exit) == NextIdx(content, i + 1)

\* (variant: every result carries the id of the response's first block)
ToolResult_FirstBlockId(block, text) ==
    [type |-> "tool_result", tool_use_id |-> <<block.id[1], 1>>, content |-> text]

\* tool_results.append({"type": "tool_result", "tool_use_id": block.id, ...})
ToolResult(block, text) ==
    [type |-> "tool_result", tool_use_id |-> block.id, content |-> text]

\* (variant: the summary of an end_session call is not captured)
CaptureSummary_Dropped(name, inputs, cur) == cur

\* if tool_name == "end_session":
\*     session_summary = tool_inputs.get("summary", session_summary)
CaptureSummary(name, inputs, cur) ==
    IF name = "end_session" THEN GetOr(inputs, "summary", cur) ELSE cur

\* actions.append({"tool": name, "inputs": inputs})
Action(name, inputs) == [tool |-> name, inputs |-> inputs]

RECURSIVE TotalBlocks(_)
\* the content blocks of all the assistant messages of a history
TotalBlocks(msgs) ==
    IF msgs = <<>> THEN 0
    ELSE (IF msgs[1].role = "assistant" THEN Len(msgs[1].content) ELSE 0)
         + TotalBlocks(Tail(msgs))

VARIABLES
    sessions,         \* the sessions table: row i has id i
    published,        \* what push_session_summary has published
    clock,            \* now_iso(): the next timestamp
    pc,               \* where _run_one_session / run_session stands
    session_id,       \* run_session's session_id
    messages,         \* run_session's message history
    actions,          \* run_session's action log
    session_summary,  \* run_session's session_summary
    turn,             \* completion requests issued so far
    stop_reason,      \* stop reason of the last response
    tool_results,     \* results collected for the batch in progress
    exit_requested,   \* the exit flag of the batch in progress
    idx,              \* position in the last response's blocks
    ret,              \* the last dispatch_tool call: its arguments, what the
                      \* environment did during it, what it returned and caught
    result,           \* the value run_session returned
    error             \* the exception that left run_session

vars == <<sessions, published, clock, pc, session_id, messages, actions,
          session_summary, turn, stop_reason, tool_results, exit_requested,
          idx, ret, result, error>>

store == <<sessions, published, clock>>
batch == <<tool_results, exit_requested, idx>>

VARIABLES
    memories,         \* the memories table, in rowid order
    mem_seq,          \* the largest id the memories table ever gave out
                      \* (sqlite_sequence, kept by AUTOINCREMENT)
    chroma,           \* the entries of the semantic index's collection
    mem_ret,          \* the last memory-store call: its arguments, what it
                      \* returned, whether the index raised during it
    index_failed,     \* some semantic-index operation has raised so far
    mem_out           \* how the last memory-store call ended: the value it
                      \* returned or the exception that left it, and the text
                      \* dispatch_tool makes of it

memvars == <<memories, mem_seq, chroma, mem_ret, index_failed, mem_out>>

\* the state of _run_one_session / run_session
run == <<pc, session_id, messages, actions, session_summary, turn, stop_reason,
         tool_results, exit_requested, idx, ret, result, error>>

VARIABLES
    reminders,        \* the reminders table, in rowid order: row i has id i
    rem_ret,          \* the last reminder call and its arguments
    rem_out           \* the value that call returned

remvars == <<reminders, rem_ret, rem_out>>

\* init_db on an empty database: no reminders
RemInit ==
    /\ reminders = <<>>
    /\ rem_ret = Null
    /\ rem_out = Null

VARIABLES
    wall_date,        \* the UTC date of the wall clock (main.py:78)
    surfaced,         \* the due_reminders list each _run_one_session so far
                      \* passed to build_system_prompt, oldest first
    posts,            \* the posts table, in rowid order
    post_seq,         \* sqlite_sequence's value for posts
    post_ret,         \* the last save_post call: its arguments, what it returned
    emails,           \* the emails table, in rowid order
    mail_seq,         \* sqlite_sequence's value for emails
    mail_ret,         \* the last read_inbox / reply_email call
    registry,         \* registry.py's _registry
    reg_ret,          \* the last get_tools / get_dispatch call and its value
    tool_ret,         \* the last name looked up in dispatch_tool's if/elif
                      \* chain and the branch that took it
    chroma_col,       \* memory.py's global _chroma_col
    created,          \* clients and collections this process has created
    col_ret           \* the last _get_chroma_col call: the handle it returned

mainvars == <<wall_date, surfaced>>
postvars == <<posts, post_seq, post_ret>>
mailvars == <<emails, mail_seq, mail_ret>>
toolvars == <<registry, reg_ret, tool_ret>>
procvars == <<chroma_col, created, col_ret>>
auxvars == <<mainvars, postvars, mailvars, toolvars, procvars>>

\* init_db on an empty database and an empty index directory
MemInit ==
    /\ memories = <<>>
    /\ mem_seq = 0
    /\ chroma = {}
    /\ mem_ret = Null
    /\ index_failed = FALSE
    /\ mem_out = Null

\* the date of the wall clock when the process starts, as <<year, month, day>>
StartDate == <<2098, 12, 31>>

\* the handle the n-th creation of this process makes: the collection
\* "memories" of the client opened on CHROMA_PATH
Handle(n) == [client |-> n, name |-> "memories"]

\* the rest of the process after init_db on an empty database: no session has
\* been prepared, posts and emails are empty, _registry = [] as registry.py
\* creates it, and init_db's _get_chroma_col call has made the handle
AuxInit ==
    /\ wall_date = StartDate
    /\ surfaced = <<>>
    /\ posts = <<>>
    /\ post_seq = 0
    /\ post_ret = Null
    /\ emails = <<>>
    /\ mail_seq = 0
    /\ mail_ret = Null
    /\ registry = <<>>
    /\ reg_ret = Null
    /\ tool_ret = Null
    /\ chroma_col = Some(Handle(1))
    /\ created = 1
    /\ col_ret = Some(Handle(1))

\* the blocks of the response being processed
Content == messages[Len(messages)].content
Block == Content[idx]

\* the process after init_db on an empty database, before _run_one_session
Init ==
    /\ sessions = <<>>
    /\ published = <<>>
    /\ clock = 1
    /\ pc = "idle"
    /\ session_id = 0
    /\ messages = <<>>
    /\ actions = <<>>
    /\ session_summary = NoSummary
    /\ turn = 0
    /\ stop_reason = Null
    /\ tool_results = <<>>
    /\ exit_requested = FALSE
    /\ idx = 1
    /\ ret = Null
    /\ result = Null
    /\ error = Null
    /\ MemInit
    /\ RemInit
    /\ AuxInit

\* _run_one_session: session_id = mem.start_session(), then run_session is
\* entered: messages = [], actions = [], session_summary = placeholder
StartSession ==
    /\ pc = "idle"
    /\ sessions' = InsertSession(sessions, clock)
    /\ session_id' = NewSessionId(sessions)
    /\ clock' = clock + 1
    /\ messages' = <<>>
    /\ actions' = <<>>
    /\ session_summary' = NoSummary
    /\ pc' = "request"
    /\ UNCHANGED <<published, turn, stop_reason, batch, ret, result, error>>

\* return session_summary
Return ==
    /\ pc' = "returned"
    /\ result' = Some(session_summary)

\* (variant: every stop reason other than end_turn is treated as tool_use)
Request_DispatchUnlessEndTurn ==
    /\ pc = "request"
    /\ LoopHasNext(turn)
    /\ \E stop \in StopReasons,
          choice \in ContentChoices(Min(MaxBlocks, MaxTotalBlocks - TotalBlocks(messages))) :
          LET content == MakeContent(turn + 1, choice)
          IN  /\ messages' = Append(messages, [role |-> "assistant", content |-> content])
              /\ turn' = turn + 1
              /\ stop_reason' = Some(stop)
              /\ IF stop # "end_turn"
                 THEN /\ tool_results' = <<>>
                      /\ exit_requested' = FALSE
                      /\ idx' = NextIdx(content, 1)
                      /\ pc' = "batch"
                      /\ UNCHANGED result
                 ELSE /\ Return
                      /\ UNCHANGED batch
    /\ UNCHANGED <<store, session_id, actions, session_summary, ret, error>>

\* one pass of the loop head: client.messages.create returns a response, the
\* response is appended to the history and its stop reason is looked at
Request ==
    /\ pc = "request"
    /\ LoopHasNext(turn)
    /\ \E stop \in StopReasons,
          choice \in ContentChoices(Min(MaxBlocks, MaxTotalBlocks - TotalBlocks(messages))) :
          LET content == MakeContent(turn + 1, choice)
          IN  /\ messages' = Append(messages, [role |-> "assistant", content |-> content])
              /\ turn' = turn + 1
              /\ stop_reason' = Some(stop)
              /\ IF stop = "tool_use"
                 THEN /\ tool_results' = <<>>
                      /\ exit_requested' = FALSE
                      /\ idx' = NextIdx(content, 1)
                      /\ pc' = "batch"
                      /\ UNCHANGED result
                 ELSE /\ Return
                      /\ UNCHANGED batch
    /\ UNCHANGED <<store, session_id, actions, session_summary, ret, error>>

\* client.messages.create raises: nothing in run_session catches it
RequestRaises ==
    /\ pc = "request"
    /\ LoopHasNext(turn)
    /\ turn' = turn + 1
    /\ pc' = "raised"
    /\ error' = Some("APIError")
    /\ UNCHANGED <<store, session_id, messages, actions, session_summary,
                   stop_reason, batch, ret, result>>

\* (variant: the Action is recorded only once the name has been found to be a
\* known tool)
DispatchAppend_KnownOnly ==
    /\ pc = "batch"
    /\ idx <= Len(Content)
    /\ actions' = IF Block.name \in DispatchNames
                  THEN Append(actions, Action(Block.name, Block.input))
                  ELSE actions
    /\ pc' = "handler"
    /\ UNCHANGED <<store, session_id, messages, session_summary, turn,
                   stop_reason, batch, ret, result, error>>

\* (variant: actions.insert(0, ...) instead of actions.append(...))
DispatchAppend_Prepend ==
    /\ pc = "batch"
    /\ idx <= Len(Content)
    /\ actions' = <<Action(Block.name, Block.input)>> \o actions
    /\ pc' = "handler"
    /\ UNCHANGED <<store, session_id, messages, session_summary, turn,
                   stop_reason, batch, ret, result, error>>

\* dispatch_tool's first statement, for the next tool_use block of the batch
DispatchAppend ==
    /\ pc = "batch"
    /\ idx <= Len(Content)
    /\ actions' = Append(actions, Action(Block.name, Block.input))
    /\ pc' = "handler"
    /\ UNCHANGED <<store, session_id, messages, session_summary, turn,
                   stop_reason, batch, ret, result, error>>

\* the rest of dispatch_tool (the try block and its except clause) and the
\* statements of the for loop that follow the call
DispatchHandle ==
    /\ pc = "handler"
    /\ \E o \in OutcomesFor(Block.name, Block.input) :
          LET r == DispatchTool(Block.name, Block.input, o)
          IN  /\ IF r.persist # Null
                 THEN /\ sessions' = MemEndSession(sessions, session_id, r.persist[1],
                                                   actions, clock)
                      /\ clock' = clock + 1
                 ELSE UNCHANGED <<sessions, clock>>
              /\ published' = IF r.pushed
                              THEN Append(published, <<session_id, r.persist[1]>>)
                              ELSE published
              /\ ret' = Some([name |-> Block.name, inputs |-> Block.input, outcome |-> o,
                               text |-> r.text, exit |-> r.exit, exc |-> r.exc,
                               propagated |-> r.propagated])
              /\ IF r.propagated
                 THEN /\ pc' = "raised"
                      /\ error' = r.exc
                      /\ UNCHANGED <<session_summary, batch>>
                 ELSE /\ session_summary' = CaptureSummary(Block.name, Block.input,
                                                           session_summary)
                      /\ tool_results' = Append(tool_results, ToolResult(Block, r.text))
                      /\ exit_requested' = (exit_requested \/ r.exit)
                      /\ idx' = AfterCall(Content, idx, r.exit)
                      /\ pc' = "batch"
                      /\ UNCHANGED error
    /\ UNCHANGED <<session_id, messages, actions, turn, stop_reason, result>>

\* (variant: the user message is appended only if there are results)
AppendResults_SkipsEmpty ==
    /\ pc = "batch"
    /\ idx > Len(Content)
    /\ messages' = IF tool_results = <<>> THEN messages
                   ELSE Append(messages, [role |-> "user", content |-> tool_results])
    /\ pc' = "check"
    /\ UNCHANGED <<store, session_id, actions, session_summary, turn,
                   stop_reason, batch, ret, result, error>>

\* messages.append({"role": "user", "content": tool_results})
AppendResults ==
    /\ pc = "batch"
    /\ idx > Len(Content)
    /\ messages' = Append(messages, [role |-> "user", content |-> tool_results])
    /\ pc' = "check"
    /\ UNCHANGED <<store, session_id, actions, session_summary, turn,
                   stop_reason, batch, ret, result, error>>

\* if exit_requested: break
CheckExit ==
    /\ pc = "check"
    /\ IF exit_requested
       THEN Return
       ELSE pc' = "request" /\ UNCHANGED result
    /\ UNCHANGED <<store, session_id, messages, actions, session_summary, turn,
                   stop_reason, batch, ret, error>>

\* (variant: the else clause calls mem.end_session without looking at actions)
TurnLimit_AlwaysPersists ==
    /\ pc = "request"
    /\ ~LoopHasNext(turn)
    /\ \E db \in HandlerOutcomes :
          IF db = "ok"
          THEN /\ sessions' = MemEndSession(sessions, session_id, TurnLimitSummary,
                                            actions, clock)
               /\ clock' = clock + 1
               /\ Return
               /\ UNCHANGED error
          ELSE /\ pc' = "raised"
               /\ error' = Some("database is locked")
               /\ UNCHANGED <<sessions, clock, result>>
    /\ UNCHANGED <<published, session_id, messages, actions, session_summary, turn,
                   stop_reason, batch, ret>>

\* the for loop's else clause: if actions: mem.end_session(..., actions), where
\* the UPDATE commits or raises; then return session_summary
TurnLimit ==
    /\ pc = "request"
    /\ ~LoopHasNext(turn)
    /\ IF actions # <<>>
       THEN \E db \in HandlerOutcomes :
               IF db = "ok"
               THEN /\ sessions' = MemEndSession(sessions, session_id, TurnLimitSummary,
                                                 actions, clock)
                    /\ clock' = clock + 1
                    /\ Return
                    /\ UNCHANGED error
               ELSE /\ pc' = "raised"
                    /\ error' = Some("database is locked")
                    /\ UNCHANGED <<sessions, clock, result>>
       ELSE /\ Return
            /\ UNCHANGED <<sessions, clock, error>>
    /\ UNCHANGED <<published, session_id, messages, actions, session_summary, turn,
                   stop_reason, batch, ret>>

\* one session; the memories table and the index are not touched by these steps
Next ==
    \/ StartSession /\ UNCHANGED <<memvars, remvars, auxvars>>
    \/ Request /\ UNCHANGED <<memvars, remvars, auxvars>>
    \/ RequestRaises /\ UNCHANGED <<memvars, remvars, auxvars>>
    \/ DispatchAppend /\ UNCHANGED <<memvars, remvars, auxvars>>
    \/ DispatchHandle /\ UNCHANGED <<memvars, remvars, auxvars>>
    \/ AppendResults /\ UNCHANGED <<memvars, remvars, auxvars>>
    \/ CheckExit /\ UNCHANGED <<memvars, remvars, auxvars>>
    \/ TurnLimit /\ UNCHANGED <<memvars, remvars, auxvars>>

Spec == Init /\ [][Next]_vars

\* run_session is one synchronous thread: while a step is possible one is
\* taken (every completion request and every handler returns or raises)
FairSpec == Spec /\ WF_vars(Next)

\* ---------------------------------------------------------------- loop mode
\* most sessions main's while loop runs
MaxSessions == 2
\* most content blocks in one model response when sessions are repeated
MaxLoopBlocks == 1

\* the loop head of run_session as in Request, with responses of at most
\* MaxLoopBlocks blocks
LoopRequest ==
    /\ pc = "request"
    /\ LoopHasNext(turn)
    /\ \E stop \in StopReasons, choice \in ContentChoices(MaxLoopBlocks) :
          LET content == MakeContent(turn + 1, choice)
          IN  /\ messages' = Append(messages, [role |-> "assistant", content |-> content])
              /\ turn' = turn + 1
              /\ stop_reason' = Some(stop)
              /\ IF stop = "tool_use"
                 THEN /\ tool_results' = <<>>
                      /\ exit_requested' = FALSE
                      /\ idx' = NextIdx(content, 1)
                      /\ pc' = "batch"
                      /\ UNCHANGED result
                 ELSE /\ Return
                      /\ UNCHANGED batch
    /\ UNCHANGED <<store, session_id, actions, session_summary, ret, error>>

\* main's while True: run_session has returned, loop_interval is set, and
\* _run_one_session runs again: mem.start_session() inserts a new row and
\* run_session is entered with fresh locals.  (An exception that leaves
\* run_session leaves main too.)
NextSession ==
    /\ pc = "returned"
    /\ Len(sessions) < MaxSessions
    /\ sessions' = InsertSession(sessions, clock)
    /\ session_id' = NewSessionId(sessions)
    /\ clock' = clock + 1
    /\ messages' = <<>>
    /\ actions' = <<>>
    /\ session_summary' = NoSummary
    /\ turn' = 0
    /\ stop_reason' = Null
    /\ tool_results' = <<>>
    /\ exit_requested' = FALSE
    /\ idx' = 1
    /\ ret' = Null
    /\ result' = Null
    /\ error' = Null
    /\ pc' = "request"
    /\ UNCHANGED published

LoopNext ==
    \/ StartSession /\ UNCHANGED <<memvars, remvars, auxvars>>
    \/ LoopRequest /\ UNCHANGED <<memvars, remvars, auxvars>>
    \/ RequestRaises /\ UNCHANGED <<memvars, remvars, auxvars>>
    \/ DispatchAppend /\ UNCHANGED <<memvars, remvars, auxvars>>
    \/ DispatchHandle /\ UNCHANGED <<memvars, remvars, auxvars>>
    \/ AppendResults /\ UNCHANGED <<memvars, remvars, auxvars>>
    \/ CheckExit /\ UNCHANGED <<memvars, remvars, auxvars>>
    \/ TurnLimit /\ UNCHANGED <<memvars, remvars, auxvars>>
    \/ NextSession /\ UNCHANGED <<memvars, remvars, auxvars>>

\* main in loop mode: session after session on the same database
SpecLoop == Init /\ [][LoopNext]_vars

\* ---------------------------------------------------------------- memory store
\* the memory-store call in mem_ret
MemCall(op, id, category, content, importance, deleted, raised) ==
    [op |-> op, id |-> id, category |-> category, content |-> content,
     importance |-> importance, deleted |-> deleted, raised |-> raised]

\* how a memory-store call ends: return value, or the exception that
\* leaves it; text is what dispatch_tool's branch for the call returns
MemReturn(value, text) == [kind |-> "return", value |-> value, text |-> text]
MemRaise(msg, name) == [kind |-> "raise", value |-> msg, text |-> ToolErrorText(name, msg)]

\* the message of an exception raised by the semantic index
IndexError == "index unavailable"

\* f"Memory saved (id={mid})."
RememberText(mid) == "Memory saved (id=" \o ToString(mid) \o ")."

\* f"Memory {id} deleted." / f"No memory found with id {id}."
DeleteText(id, deleted) ==
    IF deleted THEN "Memory " \o ToString(id) \o " deleted."
    ELSE "No memory found with id " \o ToString(id) \o "."

\* (variant: col.add is called inside the with block, so its exception rolls
\* the INSERT back)
Remember_IndexInsideTransaction ==
    /\ mem_seq < MaxMemories
    /\ \E category \in Categories, content \in Contents,
          importance \in ImportanceInputs, ix \in HandlerOutcomes :
          LET clamped == Clamp(importance)
              mid == mem_seq + 1
          IN  /\ clock' = clock + 1
              /\ IF ix = "ok"
                 THEN /\ memories' = Append(memories,
                                       MemoryRow(mid, category, content, clamped, clock))
                      /\ mem_seq' = mid
                      /\ chroma' = ChromaAdd(chroma,
                                             ChromaEntry(Str(mid), content, category, clamped))
                      /\ UNCHANGED index_failed
                 ELSE /\ UNCHANGED <<memories, mem_seq, chroma>>
                      /\ index_failed' = TRUE
              /\ mem_ret' = Some(MemCall("remember", mid, category, content, importance,
                                         FALSE, ix = "raise"))
              /\ mem_out' = IF ix = "ok"
                            THEN Some(MemReturn(mid, RememberText(mid)))
                            ELSE Some(MemRaise(IndexError, "remember"))
    /\ UNCHANGED <<sessions, published, run>>

\* the largest id of the rows of tbl, 0 for an empty table
MaxRowId(tbl) ==
    IF tbl = <<>> THEN 0
    ELSE CHOOSE m \in {tbl[i].id : i \in 1..Len(tbl)} :
            \A i \in 1..Len(tbl) : tbl[i].id <= m

\* (variant: id INTEGER PRIMARY KEY without AUTOINCREMENT: the new id is one
\* more than the largest id in the table; mem_seq counts the inserts)
Remember_ReusesIds ==
    /\ mem_seq < MaxMemories
    /\ \E category \in Categories, content \in Contents,
          importance \in ImportanceInputs, ix \in HandlerOutcomes :
          LET clamped == Clamp(importance)
              mid == MaxRowId(memories) + 1
          IN  /\ memories' = Append(memories,
                                    MemoryRow(mid, category, content, clamped, clock))
              /\ mem_seq' = mem_seq + 1
              /\ clock' = clock + 1
              /\ IF ix = "ok"
                 THEN /\ chroma' = ChromaAdd(chroma,
                                             ChromaEntry(Str(mid), content, category, clamped))
                      /\ UNCHANGED index_failed
                 ELSE /\ chroma' = chroma
                      /\ index_failed' = TRUE
              /\ mem_ret' = Some(MemCall("remember", mid, category, content, importance,
                                         FALSE, ix = "raise"))
              /\ mem_out' = IF ix = "ok"
                            THEN Some(MemReturn(mid, RememberText(mid)))
                            ELSE Some(MemRaise(IndexError, "remember"))
    /\ UNCHANGED <<sessions, published, run>>

\* remember(category, content, importance): the INSERT commits when the with
\* block is left, then the entry is added to the index, which returns or
\* raises (the exception leaves remember; the row stays)
Remember ==
    /\ mem_seq < MaxMemories
    /\ \E category \in Categories, content \in Contents,
          importance \in ImportanceInputs, ix \in HandlerOutcomes :
          LET clamped == Clamp(importance)
              mid == mem_seq + 1
          IN  /\ memories' = Append(memories,
                                    MemoryRow(mid, category, content, clamped, clock))
              /\ mem_seq' = mid
              /\ clock' = clock + 1
              /\ IF ix = "ok"
                 THEN /\ chroma' = ChromaAdd(chroma,
                                             ChromaEntry(Str(mid), content, category, clamped))
                      /\ UNCHANGED index_failed
                 ELSE /\ chroma' = chroma
                      /\ index_failed' = TRUE
              /\ mem_ret' = Some(MemCall("remember", mid, category, content, importance,
                                         FALSE, ix = "raise"))
              /\ mem_out' = IF ix = "ok"
                            THEN Some(MemReturn(mid, RememberText(mid)))
                            ELSE Some(MemRaise(IndexError, "remember"))
    /\ UNCHANGED <<sessions, published, run>>

\* (variant: the index delete is attempted whether or not a row was deleted)
DeleteMemory_AlwaysDeletesIndex ==
    /\ \E memory_id \in 1..MaxMemories, ix \in HandlerOutcomes :
          LET deleted == RowCount(memories, memory_id) > 0
          IN  /\ memories' = DeleteRow(memories, memory_id)
              /\ chroma' = IF ix = "ok"
                           THEN ChromaDelete(chroma, Str(memory_id))
                           ELSE chroma
              /\ index_failed' = (index_failed \/ ix = "raise")
              /\ mem_ret' = Some(MemCall("delete_memory", memory_id, "", "", 0,
                                         deleted, ix = "raise"))
              /\ mem_out' = Some(MemReturn(deleted, DeleteText(memory_id, deleted)))
    /\ UNCHANGED <<mem_seq, store, run>>

\* delete_memory(memory_id): the DELETE, then, if a row was deleted, the
\* index delete inside try/except: pass
DeleteMemory ==
    /\ \E memory_id \in 1..MaxMemories, ix \in HandlerOutcomes :
          LET deleted == RowCount(memories, memory_id) > 0
          IN  /\ ~deleted => ix = "ok"
              /\ memories' = DeleteRow(memories, memory_id)
              /\ chroma' = IF deleted /\ ix = "ok"
                           THEN ChromaDelete(chroma, Str(memory_id))
                           ELSE chroma
              /\ index_failed' = (index_failed \/ (deleted /\ ix = "raise"))
              /\ mem_ret' = Some(MemCall("delete_memory", memory_id, "", "", 0,
                                         deleted, deleted /\ ix = "raise"))
              /\ mem_out' = Some(MemReturn(deleted, DeleteText(memory_id, deleted)))
    /\ UNCHANGED <<mem_seq, store, run>>

\* the queries and limits recall is called with (20 is its default limit, the
\* one the recall tool uses) and the limits of get_all_memories (50 is its
\* default and the one _run_one_session passes)
Queries == {"SKY"}
RecallLimits == {1, 20}
GetAllLimits == {1, 50}

\* a recall or get_all_memories call in mem_ret
QueryCall(op, query, limit, raised) ==
    [op |-> op, query |-> query, limit |-> limit, raised |-> raised]

\* (variant: n_results is the size of the collection)
NResults_IgnoresLimit(limit, count) == count

\* n_results=min(limit, col.count())
NResults(limit, count) == Min(limit, count)

\* col.query(query_texts=[query], n_results=n): the n entries nearest to the
\* query, nearest first; which they are is up to the embedding, so any n
\* different entries in any order
QueryResults(col, n) ==
    {s \in [1..n -> col] : \A i, j \in 1..n : i # j => s[i] # s[j]}

\* the dict recall builds from the entry of a result: the id parsed back, the
\* category and importance of the entry's metadata, the entry's document
Hit(e) ==
    [id |-> ParseInt(e.id), category |-> e.metadata.category,
     content |-> e.document, importance |-> e.metadata.importance]

\* the character U+2605 of the recall tool's lines
Star == "*"

\* f"[{r['category']}] *{r['importance']} {r['content']}"
HitLine(r) == "[" \o r.category \o "] " \o Star \o ToString(r.importance) \o " " \o r.content

RECURSIVE JoinLines(_)
\* "\n".join(lines)
JoinLines(lines) ==
    IF lines = <<>> THEN ""
    ELSE IF Len(lines) = 1 THEN lines[1]
    ELSE lines[1] \o "\n" \o JoinLines(Tail(lines))

\* (variant: without the "if not results" case)
RecallText_NoEmptyCase(results) ==
    JoinLines([i \in 1..Len(results) |-> HitLine(results[i])])

\* the recall branch of dispatch_tool, after mem.recall returned results
RecallText(results) ==
    IF results = <<>> THEN "No memories found matching that query."
    ELSE JoinLines([i \in 1..Len(results) |-> HitLine(results[i])])

\* col.query with n_results=n on a working index: the collection rejects
\* n < 1 with a ValueError, else the list comprehension of recall builds a
\* dict per result
QueryOutcomes(col, n) ==
    IF n < 1
    THEN {MemRaise("Number of requested results 0, cannot be negative, or zero.",
                   "recall")}
    ELSE {MemReturn([i \in 1..n |-> Hit(s[i])], RecallText([i \in 1..n |-> Hit(s[i])])) :
             s \in QueryResults(col, n)}

\* (variant: without "if col.count() == 0: return []")
RecallOutcomes_NoEmptyCheck(col, limit) ==
    QueryOutcomes(col, NResults(limit, Cardinality(col)))

\* how recall(query, limit) may end on a working index with collection col
RecallOutcomes(col, limit) ==
    IF Cardinality(col) = 0 THEN {MemReturn(<<>>, RecallText(<<>>))}
    ELSE QueryOutcomes(col, NResults(limit, Cardinality(col)))

\* recall(query, limit): col.count() and col.query return or raise (the
\* exception leaves recall); the relational store is not read
Recall ==
    /\ \E query \in Queries, limit \in RecallLimits, ix \in HandlerOutcomes :
          /\ mem_ret' = Some(QueryCall("recall", query, limit, ix = "raise"))
          /\ IF ix = "raise"
             THEN /\ mem_out' = Some(MemRaise(IndexError, "recall"))
                  /\ index_failed' = TRUE
             ELSE /\ \E out \in RecallOutcomes(chroma, limit) : mem_out' = Some(out)
                  /\ UNCHANGED index_failed
    /\ UNCHANGED <<memories, mem_seq, chroma, store, run>>

\* (variant: ORDER BY importance DESC, id ASC)
RowBefore_IdAscending(a, b) ==
    \/ a.importance > b.importance
    \/ a.importance = b.importance /\ a.id < b.id

\* ORDER BY importance DESC, id DESC: row a comes before row b
RowBefore(a, b) ==
    \/ a.importance > b.importance
    \/ a.importance = b.importance /\ a.id > b.id

\* the rows of a table in that order (ids are unique, so there is one)
OrderRows(tbl) ==
    CHOOSE s \in [1..Len(tbl) -> {tbl[i] : i \in 1..Len(tbl)}] :
        \A i, j \in 1..Len(tbl) : i < j => RowBefore(s[i], s[j])

\* LIMIT ?
Limit(s, n) == SubSeq(s, 1, Min(n, Len(s)))

\* get_all_memories(limit): SELECT * FROM memories ORDER BY ... LIMIT ?
GetAllMemories ==
    /\ \E limit \in GetAllLimits :
          /\ mem_ret' = Some(QueryCall("get_all_memories", "", limit, FALSE))
          /\ mem_out' = Some(MemReturn(Limit(OrderRows(memories), limit), ""))
    /\ UNCHANGED <<memories, mem_seq, chroma, index_failed, store, run>>

MemNext ==
    \/ Remember /\ UNCHANGED <<remvars, auxvars>>
    \/ DeleteMemory /\ UNCHANGED <<remvars, auxvars>>
    \/ Recall /\ UNCHANGED <<remvars, auxvars>>
    \/ GetAllMemories /\ UNCHANGED <<remvars, auxvars>>

\* the memory store used by any sequence of calls, from the empty store
SpecMem == Init /\ [][MemNext]_<<memvars, clock>>

\* ---------------------------------------------------------------- reminders
\* most set_reminder calls in a run
MaxReminders == 2
\* mark_reminders_triggered takes a timestamp only while the clock is below
\* this value
MaxClock == 4

\* A date is the text YYYY-MM-DD (set_reminder's docstring; main.py:78 formats
\* today so): <<year, month, day>> stands for it, and the text comparison of
\* two such dates compares year, then month, then day.
Dates == {<<2098, 12, 31>>, <<2099, 1, 1>>, <<2099, 1, 2>>}
Notes == {"check X"}

\* (variant: due_date < ?)
DateLeq_Strict(a, b) ==
    \/ a[1] < b[1]
    \/ a[1] = b[1] /\ a[2] < b[2]
    \/ a[1] = b[1] /\ a[2] = b[2] /\ a[3] < b[3]

\* due_date <= ? on TEXT columns
DateLeq(a, b) ==
    \/ a[1] < b[1]
    \/ a[1] = b[1] /\ a[2] < b[2]
    \/ a[1] = b[1] /\ a[2] = b[2] /\ a[3] <= b[3]

\* INSERT INTO reminders (due_date, note, created_at): triggered_at is NULL
ReminderRow(id, due_date, note, now) ==
    [id |-> id, due_date |-> due_date, note |-> note, created_at |-> now,
     triggered_at |-> Null]

\* (variant: the SELECT without "AND triggered_at IS NULL")
DueRows_IgnoresTriggered(tbl, today) ==
    SelectSeq(tbl, LAMBDA r : DateLeq(r.due_date, today))

\* WHERE due_date <= ? AND triggered_at IS NULL
DueRows(tbl, today) ==
    SelectSeq(tbl, LAMBDA r : DateLeq(r.due_date, today) /\ r.triggered_at = Null)

\* ORDER BY due_date: the rows in an order that is ascending by due date (the
\* order of rows with the same due date is not fixed by the query)
OrdersByDueDate(rows) ==
    {s \in [1..Len(rows) -> {rows[i] : i \in 1..Len(rows)}] :
        /\ \A i, j \in 1..Len(rows) : i # j => s[i] # s[j]
        /\ \A i, j \in 1..Len(rows) : i < j => DateLeq(s[i].due_date, s[j].due_date)}

\* (variant: the UPDATE flips triggered_at, clearing it where it is set)
MarkRows_Toggles(tbl, ids, now) ==
    [i \in 1..Len(tbl) |->
        IF tbl[i].id \in ids
        THEN [tbl[i] EXCEPT !.triggered_at =
                 IF tbl[i].triggered_at = Null THEN Some(now) ELSE Null]
        ELSE tbl[i]]

\* UPDATE reminders SET triggered_at=? WHERE id IN (...)
MarkRows(tbl, ids, now) ==
    [i \in 1..Len(tbl) |->
        IF tbl[i].id \in ids THEN [tbl[i] EXCEPT !.triggered_at = Some(now)] ELSE tbl[i]]

\* the state outside the reminders table that the reminder calls leave alone
norem == <<sessions, published, run, memvars, auxvars>>

\* set_reminder(due_date, note): returns cur.lastrowid
SetReminder ==
    /\ Len(reminders) < MaxReminders
    /\ \E due_date \in Dates, note \in Notes :
          /\ reminders' = Append(reminders,
                                 ReminderRow(Len(reminders) + 1, due_date, note, clock))
          /\ rem_ret' = Some([op |-> "set_reminder", due_date |-> due_date, note |-> note])
          /\ rem_out' = Some(Len(reminders) + 1)
    /\ clock' = clock + 1
    /\ UNCHANGED norem

\* get_due_reminders(today): a SELECT
GetDueReminders ==
    /\ \E today \in Dates :
          /\ rem_ret' = Some([op |-> "get_due_reminders", today |-> today])
          /\ \E s \in OrdersByDueDate(DueRows(reminders, today)) : rem_out' = Some(s)
    /\ UNCHANGED <<reminders, clock, norem>>

\* mark_reminders_triggered(ids): returns at once on an empty list, else one
\* UPDATE with the time of the call
MarkRemindersTriggered ==
    /\ \E ids \in SUBSET (1..MaxReminders) :
          /\ rem_ret' = Some([op |-> "mark_reminders_triggered", ids |-> ids])
          /\ rem_out' = Null
          /\ IF ids = {}
             THEN UNCHANGED <<reminders, clock>>
             ELSE /\ clock < MaxClock
                  /\ reminders' = MarkRows(reminders, ids, clock)
                  /\ clock' = clock + 1
    /\ UNCHANGED norem

RemNext ==
    \/ SetReminder
    \/ GetDueReminders
    \/ MarkRemindersTriggered

\* the reminders table used by any sequence of calls, from the empty table
SpecRem == Init /\ [][RemNext]_<<remvars, clock>>

\* ---------------------------------------------------------------- due reminders of a session
\* most times _run_one_session prepares a session
MaxRuns == 3

\* the ids of a list of reminder rows: [r["id"] for r in due_reminders]
IdsOf(rows) == {rows[i].id : i \in 1..Len(rows)}

\* the dates of Dates after d
LaterDates(d) == {e \in Dates : DateLeq(d, e) /\ e # d}

\* _run_one_session, main.py:77-91: today's date is formatted, the due
\* reminders are read, marked triggered if there are any (the UPDATE commits
\* or raises, and its exception leaves _run_one_session and main), and passed
\* to build_system_prompt
PrepareSession ==
    /\ Len(surfaced) < MaxRuns
    /\ \E due_reminders \in OrdersByDueDate(DueRows(reminders, wall_date)),
          db \in HandlerOutcomes :
          /\ due_reminders = <<>> => db = "ok"
          /\ rem_ret' = Some([op |-> "_run_one_session", today |-> wall_date,
                              raised |-> db = "raise"])
          /\ rem_out' = Some(due_reminders)
          /\ IF db = "raise"
             THEN UNCHANGED <<reminders, clock, surfaced>>
             ELSE /\ IF due_reminders = <<>>
                     THEN UNCHANGED <<reminders, clock>>
                     ELSE /\ reminders' = MarkRows(reminders, IdsOf(due_reminders), clock)
                          /\ clock' = clock + 1
                  /\ surfaced' = Append(surfaced, due_reminders)
    /\ UNCHANGED <<sessions, published, run, memvars, wall_date,
                   postvars, mailvars, toolvars, procvars>>

\* the wall clock reaches a later date (between two sessions or during one)
DayPasses ==
    /\ \E d \in LaterDates(wall_date) :
          /\ \A e \in LaterDates(wall_date) : DateLeq(d, e)
          /\ wall_date' = d
    /\ UNCHANGED <<sessions, published, clock, run, memvars, remvars, surfaced,
                   postvars, mailvars, toolvars, procvars>>

\* sessions prepared one after another; the set_reminder tool is called
\* during them
MainNext ==
    \/ PrepareSession
    \/ SetReminder
    \/ DayPasses

SpecMain == Init /\ [][MainNext]_<<remvars, mainvars, clock>>

\* ---------------------------------------------------------------- posts
\* save_post is called only while the clock is at most this value
MaxSaves == 3

\* what save_post is called with: titles whose slug is the same, slugs,
\* contents, and the URL of the post on a social network or None
Titles == {"Sky", "SKY"}
Slugs == {"sky", "sea"}
Markdowns == {"v1", "v2"}
SocialUrls == {Null, Some("https://x.example/1")}

\* the rows of tbl whose slug is slug (slug is UNIQUE: at most one)
SlugRows(tbl, slug) == {i \in 1..Len(tbl) : tbl[i].slug = slug}

\* INSERT INTO posts (title, slug, content_md, session_id, published_at,
\* twitter_url, bluesky_url) VALUES (...)
PostRow(id, title, slug, content_md, sid, now, twitter_url, bluesky_url) ==
    [id |-> id, title |-> title, slug |-> slug, content_md |-> content_md,
     session_id |-> sid, published_at |-> now, twitter_url |-> twitter_url,
     bluesky_url |-> bluesky_url]

\* (variant: ON CONFLICT(slug) DO NOTHING)
UpsertPost_DoNothing(tbl, id, title, slug, content_md, sid, now, twitter_url, bluesky_url) ==
    IF SlugRows(tbl, slug) = {}
    THEN Append(tbl, PostRow(id, title, slug, content_md, sid, now, twitter_url, bluesky_url))
    ELSE tbl

\* the INSERT ... ON CONFLICT(slug) DO UPDATE SET content_md, published_at,
\* twitter_url, bluesky_url = excluded's: a row with a new slug is added with
\* id id; on a stored slug these four columns of its row are overwritten
\* (title, session_id and id stay)
UpsertPost(tbl, id, title, slug, content_md, sid, now, twitter_url, bluesky_url) ==
    IF SlugRows(tbl, slug) = {}
    THEN Append(tbl, PostRow(id, title, slug, content_md, sid, now, twitter_url, bluesky_url))
    ELSE [i \in 1..Len(tbl) |->
            IF tbl[i].slug = slug
            THEN [tbl[i] EXCEPT !.content_md = content_md, !.published_at = now,
                                !.twitter_url = twitter_url, !.bluesky_url = bluesky_url]
            ELSE tbl[i]]

\* the value of sqlite_sequence for a table after an INSERT that met a
\* conflict and added no row: SQLite may or may not have advanced it by the
\* rowid it had prepared
SeqAfterConflict(seq) == {seq, seq + 1}

\* cur.lastrowid after the INSERT on a connection made for this call: the id
\* of the row added, 0 when none was
LastRowId(added, id) == IF added THEN id ELSE 0

\* save_post(title, slug, content_md, session_id, twitter_url, bluesky_url):
\* the upsert commits when the with block is left, or the statement raises
\* and nothing is written
SavePost ==
    /\ clock <= MaxSaves
    /\ \E title \in Titles, slug \in Slugs, content_md \in Markdowns,
          twitter_url \in SocialUrls, db \in HandlerOutcomes :
          LET id == post_seq + 1
              added == SlugRows(posts, slug) = {}
          IN  /\ post_ret' = Some([op |-> "save_post", title |-> title, slug |-> slug,
                                   content_md |-> content_md, twitter_url |-> twitter_url,
                                   raised |-> db = "raise",
                                   value |-> IF db = "raise" THEN Null
                                             ELSE Some(LastRowId(added, id))])
              /\ IF db = "raise"
                 THEN UNCHANGED <<posts, post_seq>>
                 ELSE /\ posts' = UpsertPost(posts, id, title, slug, content_md, 1, clock,
                                             twitter_url, Null)
                      /\ post_seq' \in (IF added THEN {id} ELSE SeqAfterConflict(post_seq))
    /\ clock' = clock + 1
    /\ UNCHANGED <<sessions, published, run, memvars, remvars,
                   mainvars, mailvars, toolvars, procvars>>

\* read_post(slug): SELECT * FROM posts WHERE slug=?, fetchone()
ReadPost ==
    /\ \E slug \in Slugs :
          post_ret' = Some([op |-> "read_post", slug |-> slug,
                            value |-> IF SlugRows(posts, slug) = {} THEN Null
                                      ELSE Some(posts[CHOOSE i \in SlugRows(posts, slug) : TRUE])])
    /\ UNCHANGED <<posts, post_seq, clock, sessions, published, run, memvars, remvars,
                   mainvars, mailvars, toolvars, procvars>>

PostNext ==
    \/ SavePost
    \/ ReadPost

\* the posts table under any sequence of save_post and read_post calls, from
\* the empty table
SpecPosts == Init /\ [][PostNext]_<<postvars, clock>>

\* ---------------------------------------------------------------- emails
\* most messages one listing of the inbox returns (read_inbox's max_emails)
MaxEmails == 2
\* read_inbox and reply_email are called only while the clock is at most this
\* value
MaxMailCalls == 3

\* a message of the inbox as read_inbox reads it
Message(message_id, body, received_at) ==
    [message_id |-> message_id, from_addr |-> "a@x.example", subject |-> "hi",
     body |-> body, received_at |-> received_at]

\* the messages the inbox may list: the service may render the same message
\* with another body or received_at on a later listing
Messages ==
    {Message("m1", "hello", "t1"), Message("m1", "hello (edited)", "t2"),
     Message("m2", "hello", "t1")}
MessageIds == {m.message_id : m \in Messages}
ReplyBodies == {"thanks"}

\* what client.inboxes.messages.list(inbox, limit=max_emails) may return
Listings == UNION {[1..n -> Messages] : n \in 0..MaxEmails}

\* INSERT ... INTO emails (message_id, from_addr, subject, body, received_at):
\* replied_at and reply_body are NULL
EmailRow(id, m) ==
    [id |-> id, message_id |-> m.message_id, from_addr |-> m.from_addr,
     subject |-> m.subject, body |-> m.body, received_at |-> m.received_at,
     replied_at |-> Null, reply_body |-> Null]

\* the message_id is stored (message_id is UNIQUE)
Stored(tbl, message_id) == \E i \in 1..Len(tbl) : tbl[i].message_id = message_id

\* (variant: INSERT OR REPLACE: the stored row is deleted and the new one
\* inserted)
UpsertEmail_Replaces(tbl, seq, m) ==
    {<<Append(SelectSeq(tbl, LAMBDA r : r.message_id # m.message_id),
              EmailRow(seq + 1, m)), seq + 1>>}

\* upsert_email(message_id, from_addr, subject, body, received_at) on table
\* tbl with sequence value seq: INSERT OR IGNORE adds a row for a message_id
\* that is not stored and does nothing to the table for one that is; the
\* tables and sequence values it may leave
UpsertEmail(tbl, seq, m) ==
    IF Stored(tbl, m.message_id)
    THEN {<<tbl, s>> : s \in SeqAfterConflict(seq)}
    ELSE {<<Append(tbl, EmailRow(seq + 1, m)), seq + 1>>}

RECURSIVE UpsertAll(_, _, _)
\* read_inbox's for loop: upsert_email for each listed message in turn
UpsertAll(tbl, seq, msgs) ==
    IF msgs = <<>> THEN {<<tbl, seq>>}
    ELSE UNION {UpsertAll(r[1], r[2], Tail(msgs)) : r \in UpsertEmail(tbl, seq, Head(msgs))}

\* UPDATE emails SET replied_at=?, reply_body=? WHERE message_id=?
MarkEmailReplied(tbl, message_id, reply_body, now) ==
    [i \in 1..Len(tbl) |->
        IF tbl[i].message_id = message_id
        THEN [tbl[i] EXCEPT !.replied_at = Some(now), !.reply_body = Some(reply_body)]
        ELSE tbl[i]]

\* read_inbox(max_emails) with AgentMail configured: the listing returns or
\* raises; each listed message is upserted
ReadInbox ==
    /\ clock <= MaxMailCalls
    /\ \E msgs \in Listings, api \in HandlerOutcomes :
          /\ mail_ret' = Some([op |-> "read_inbox", msgs |-> msgs, raised |-> api = "raise"])
          /\ IF api = "raise"
             THEN UNCHANGED <<emails, mail_seq>>
             ELSE \E r \in UpsertAll(emails, mail_seq, msgs) :
                     /\ emails' = r[1]
                     /\ mail_seq' = r[2]
    /\ clock' = clock + 1
    /\ UNCHANGED <<sessions, published, run, memvars, remvars,
                   mainvars, postvars, toolvars, procvars>>

\* reply_email(message_id, body) with AgentMail configured: the reply is sent
\* or the call raises; after a reply that was sent, mem.mark_email_replied
ReplyEmail ==
    /\ clock <= MaxMailCalls
    /\ \E message_id \in MessageIds, body \in ReplyBodies, api \in HandlerOutcomes :
          /\ mail_ret' = Some([op |-> "reply_email", message_id |-> message_id,
                               body |-> body, raised |-> api = "raise"])
          /\ emails' = IF api = "raise" THEN emails
                       ELSE MarkEmailReplied(emails, message_id, body, clock)
    /\ clock' = clock + 1
    /\ UNCHANGED <<mail_seq, sessions, published, run, memvars, remvars,
                   mainvars, postvars, toolvars, procvars>>

MailNext ==
    \/ ReadInbox
    \/ ReplyEmail

\* the emails table under any sequence of read_inbox and reply_email calls,
\* from the empty table
SpecMail == Init /\ [][MailNext]_<<mailvars, clock>>

\* ---------------------------------------------------------------- tools
\* the "name" of each entry of brain.py's TOOLS, in the order of the list
TOOLS ==
    <<"web_search", "web_browse", "get_stock_data", "remember", "recall",
      "write_blog_post", "update_about", "run_python", "fetch_rss", "list_posts",
      "read_post", "delete_memory", "get_wikipedia", "get_weather", "download_file",
      "set_reminder", "read_inbox", "reply_email", "end_session">>

\* (variant: the chain has no branch for set_reminder)
Branches_NoSetReminder ==
    <<"web_search", "web_browse", "get_stock_data", "remember", "recall",
      "write_blog_post", "update_about", "run_python", "fetch_rss", "list_posts",
      "read_post", "delete_memory", "get_wikipedia", "get_weather", "download_file",
      "read_inbox", "reply_email", "end_session">>

\* the names dispatch_tool's if/elif chain compares name with, in the order of
\* the chain
Branches ==
    <<"web_search", "web_browse", "get_stock_data", "remember", "recall",
      "write_blog_post", "update_about", "run_python", "fetch_rss", "list_posts",
      "read_post", "delete_memory", "get_wikipedia", "get_weather", "download_file",
      "set_reminder", "read_inbox", "reply_email", "end_session">>

\* the branch of the chain that takes name: the first whose comparison holds,
\* 0 for the final else
BranchOf(name) ==
    IF \E i \in 1..Len(Branches) : Branches[i] = name
    THEN CHOOSE i \in 1..Len(Branches) :
            /\ Branches[i] = name
            /\ \A j \in 1..(i - 1) : Branches[j] # name
    ELSE 0

\* the names a tool_use block may carry: the advertised ones, the ones the
\* chain knows, and one that is neither
RequestedNames ==
    {TOOLS[i] : i \in 1..Len(TOOLS)} \cup {Branches[i] : i \in 1..Len(Branches)}
       \cup {"nonexistent_tool"}

\* dispatch_tool(name, ...) seen from the chain: the else branch returns
\* "Unknown tool: ..."; a branch returns its handler's result, or the except
\* clause returns "Tool error (...)" when the handler raises
DispatchName ==
    /\ \E name \in RequestedNames, h \in HandlerOutcomes :
          /\ BranchOf(name) = 0 => h = "ok"
          /\ tool_ret' = Some([name |-> name, branch |-> BranchOf(name),
                               text |-> IF BranchOf(name) = 0 THEN UnknownToolText(name)
                                        ELSE IF h = "raise"
                                        THEN ToolErrorText(name, "handler failed")
                                        ELSE "result of " \o name])
    /\ UNCHANGED <<registry, reg_ret, sessions, published, clock, run, memvars, remvars,
                   mainvars, postvars, mailvars, procvars>>

\* most tools registered
MaxTools == 3

\* a registry entry: {"spec": spec, "fn": fn}; a function is named by its
\* module and its name
Entry(name, module, fn) == [spec |-> [name |-> name], fn |-> <<module, fn>>]

\* some of the @tool definitions of the tool modules (two of the handlers
\* have the same function name)
ToolEntries ==
    {Entry("run_python", "code_runner", "_handle"),
     Entry("download_file", "downloader", "_handle"),
     Entry("remember", "memory_tools", "_handle_remember"),
     Entry("recall", "memory_tools", "_handle_recall")}

\* (variant: the specs in reverse order of registration)
GetTools_Reversed(reg) == [i \in 1..Len(reg) |-> reg[Len(reg) + 1 - i].spec]

\* get_tools(): [e["spec"] for e in _registry]
GetTools(reg) == [i \in 1..Len(reg) |-> reg[i].spec]

\* d[k] = v on a dict held as a set of <<key, value>> pairs
DictSet(d, k, v) == {p \in d : p[1] # k} \cup {<<k, v>>}

RECURSIVE GetDispatch(_)
\* get_dispatch(): {e["spec"]["name"]: e["fn"] for e in _registry}; a later
\* entry with the same name replaces the earlier one's value
GetDispatch(reg) ==
    IF reg = <<>> THEN {}
    ELSE DictSet(GetDispatch(SubSeq(reg, 1, Len(reg) - 1)),
                 reg[Len(reg)].spec.name, reg[Len(reg)].fn)

\* @tool(spec) on a handler: a tool module is executed once, so each of its
\* definitions is registered once; the modules may be imported in any order
RegisterTool ==
    /\ Len(registry) < MaxTools
    /\ \E e \in ToolEntries :
          /\ \A i \in 1..Len(registry) : registry[i] # e
          /\ registry' = Append(registry, e)
    /\ UNCHANGED <<reg_ret, tool_ret, sessions, published, clock, run, memvars, remvars,
                   mainvars, postvars, mailvars, procvars>>

\* TOOLS = get_tools(); DISPATCH = get_dispatch()
BuildTools ==
    /\ reg_ret' = Some([tools |-> GetTools(registry), dispatch |-> GetDispatch(registry)])
    /\ UNCHANGED <<registry, tool_ret, sessions, published, clock, run, memvars, remvars,
                   mainvars, postvars, mailvars, procvars>>

ToolsNext ==
    \/ DispatchName
    \/ RegisterTool
    \/ BuildTools

\* the dispatcher called with any name, and the registry under registrations
\* in any order
SpecTools == Init /\ [][ToolsNext]_toolvars

\* ---------------------------------------------------------------- the index handle and init_db
\* get_all_memories(limit=1000) in init_db
SyncLimit == 1000

\* (variant: without "if _chroma_col is None")
GetChromaCol_AlwaysCreates(col, n) ==
    [col |-> Some(Handle(n + 1)), created |-> n + 1, ret |-> Handle(n + 1)]

\* _get_chroma_col() when the creation succeeds, with _chroma_col = col and n
\* creations so far: the global afterwards, the creations afterwards, the
\* handle returned.  get_or_create_collection opens the collection stored at
\* CHROMA_PATH, so the entries of the index are not touched.
GetChromaCol(col, n) ==
    IF col = Null
    THEN [col |-> Some(Handle(n + 1)), created |-> n + 1, ret |-> Handle(n + 1)]
    ELSE [col |-> col, created |-> n, ret |-> col[1]]

\* a call of _get_chroma_col() that returns
CallGetChromaCol ==
    LET g == GetChromaCol(chroma_col, created)
    IN  /\ chroma_col' = g.col
        /\ created' = g.created
        /\ col_ret' = Some(g.ret)

\* existing_ids = set(col.get()["ids"])
ExistingIds(col) == {e.id : e \in col}

\* (variant: nothing is synced)
ToAdd_None(rows, existing_ids) == <<>>

\* to_add = [r for r in rows if str(r["id"]) not in existing_ids]
ToAdd(rows, existing_ids) == SelectSeq(rows, LAMBDA r : Str(r.id) \notin existing_ids)

\* col.add(ids=[...], documents=[...], metadatas=[...]) for the rows of to_add
ChromaAddRows(col, to_add) ==
    col \cup {ChromaEntry(Str(to_add[i].id), to_add[i].content, to_add[i].category,
                          to_add[i].importance) : i \in 1..Len(to_add)}

\* the init_db call in mem_ret
InitDbCall(first, raised) == [op |-> "init_db", first |-> first, raised |-> raised]

\* an exception that leaves init_db (and main, which does not catch it)
InitDbRaise == [kind |-> "raise", value |-> IndexError, text |-> ""]

\* init_db(): the CREATE TABLE IF NOT EXISTS statements change no table that
\* exists; then _get_chroma_col(), whose creation of the client and the
\* collection returns or raises, col.get() and, if rows are missing from the
\* index, col.add(), which return or raise
InitDb ==
    /\ \E mk \in HandlerOutcomes, ix \in HandlerOutcomes :
          LET rows == Limit(OrderRows(memories), SyncLimit)
              to_add == ToAdd(rows, ExistingIds(chroma))
          IN  /\ chroma_col # Null => mk = "ok"
              /\ mk = "raise" => ix = "ok"
              /\ mem_ret' = Some(InitDbCall(chroma_col = Null, mk = "raise" \/ ix = "raise"))
              /\ IF mk = "raise"
                 THEN /\ UNCHANGED <<procvars, chroma>>
                      /\ mem_out' = Some(InitDbRaise)
                      /\ index_failed' = TRUE
                 ELSE /\ CallGetChromaCol
                      /\ IF ix = "raise"
                         THEN /\ UNCHANGED chroma
                              /\ mem_out' = Some(InitDbRaise)
                              /\ index_failed' = TRUE
                         ELSE /\ chroma' = ChromaAddRows(chroma, to_add)
                              /\ mem_out' = Some(MemReturn([i \in 1..Len(to_add) |->
                                                               Str(to_add[i].id)], ""))
                              /\ UNCHANGED index_failed
    /\ UNCHANGED <<memories, mem_seq, store, run, remvars,
                   mainvars, postvars, mailvars, toolvars>>

\* the process ends and main is started again: the module's globals are None
\* again; the database file and the index directory are as they were left
ProcessStart ==
    /\ chroma_col # Null
    /\ chroma_col' = Null
    /\ created' = 0
    /\ col_ret' = Null
    /\ UNCHANGED <<store, run, memvars, remvars, mainvars, postvars, mailvars, toolvars>>

\* the state the memory-store calls of a process leave alone besides the
\* handle
noproc == <<remvars, mainvars, postvars, mailvars, toolvars>>

\* the importances remember is called with and the limit recall is called
\* with (the recall tool's) when processes follow one another
ProcImportances == {1, 5}
ProcRecallLimit == 20

\* remember, recall and delete_memory in a process whose main has run init_db:
\* each calls _get_chroma_col() where its code does (delete_memory only after
\* it deleted a row)
ProcRemember ==
    /\ chroma_col # Null
    /\ Remember
    /\ mem_ret'[1].importance \in ProcImportances
    /\ CallGetChromaCol
    /\ UNCHANGED noproc

ProcRecall ==
    /\ chroma_col # Null
    /\ Recall
    /\ mem_ret'[1].limit = ProcRecallLimit
    /\ CallGetChromaCol
    /\ UNCHANGED noproc

ProcDeleteMemory ==
    /\ chroma_col # Null
    /\ DeleteMemory
    /\ IF mem_ret'[1].deleted THEN CallGetChromaCol ELSE UNCHANGED procvars
    /\ UNCHANGED noproc

ProcNext ==
    \/ InitDb
    \/ ProcessStart
    \/ ProcRemember
    \/ ProcRecall
    \/ ProcDeleteMemory

\* processes one after another on the same database and index directory
SpecProc == Init /\ [][ProcNext]_<<memvars, procvars, clock>>

\* ---------------------------------------------------------------- properties
Last(s) == s[Len(s)]

\* the tool_use blocks of a response, in their order
ToolUsesOf(content) == SelectSeq(content, LAMBDA b : b.type = "tool_use")

\* the session's stored row
Row == sessions[session_id]

\* run_session is at rest
Terminated == pc \in {"returned", "raised"}

\* C1: every tool-results message of the history follows an assistant message
\* and holds exactly one tool_result per tool_use block of that message, in the
\* blocks' order, each with its block's id; and once the batch of a tool_use
\* turn is over, its tool-results message is in the history.
C1_OneResultPerToolUse ==
    /\ \A k \in 1..Len(messages) :
          messages[k].role = "user" =>
             /\ k > 1
             /\ messages[k - 1].role = "assistant"
             /\ LET uses == ToolUsesOf(messages[k - 1].content)
                    res == messages[k].content
                IN  /\ Len(res) = Len(uses)
                    /\ \A i \in 1..Len(res) :
                          /\ res[i].type = "tool_result"
                          /\ res[i].tool_use_id = uses[i].id
    /\ \A k \in 1..(Len(messages) - 1) :
          messages[k].role = "assistant" => messages[k + 1].role = "user"
    /\ (stop_reason = Some("tool_use") /\ pc \notin {"batch", "handler"})
          => Last(messages).role = "user"

\* C1's case: a batch mixing an unknown tool, a failing handler and a
\* successful end_session has been answered
C1_Witness ==
    /\ messages # <<>>
    /\ Last(messages).role = "user"
    /\ Len(Last(messages).content) = 3
    /\ {Last(messages).content[i].content : i \in 1..3}
          = {"Unknown tool: nonexistent_tool", "Tool error (web_search): Boom", "s1"}

\* C2: the loop leaves through the exit flag only from the check that follows
\* the append of the batch's results, and then every tool_use block of the
\* response (those after the end_session block too) has been dispatched (its
\* Action is in the log) and has its result in the last message.
C2_BatchCompleteBeforeExit ==
    [][(exit_requested' /\ pc' = "returned" /\ pc # "returned") =>
          /\ pc = "check"
          /\ Len(messages) >= 2
          /\ Last(messages).role = "user"
          /\ LET uses == ToolUsesOf(messages[Len(messages) - 1].content)
                 n == Len(uses)
             IN  /\ Len(Last(messages).content) = n
                 /\ Len(actions) >= n
                 /\ \A i \in 1..n :
                       /\ Last(messages).content[i].tool_use_id = uses[i].id
                       /\ actions[Len(actions) - n + i]
                             = [tool |-> uses[i].name, inputs |-> uses[i].input]]_vars

\* C2's case: the session ended through a batch whose first call was a
\* successful end_session followed by two more tool calls
C2_Witness ==
    /\ pc = "returned"
    /\ exit_requested
    /\ Len(messages) >= 2
    /\ LET c == messages[Len(messages) - 1].content
       IN  /\ Len(c) = 3
           /\ c[1].name = "end_session"
           /\ c[2].type = "tool_use"
           /\ c[3].type = "tool_use"
           /\ Len(Last(messages).content) = 3
           /\ Last(messages).content[1].content \in Summaries

ToolCallEveryTurn ==
    /\ stop_reason = Some("tool_use")
    /\ \A k \in 1..Len(messages) :
          messages[k].role = "assistant" => ToolUsesOf(messages[k].content) # <<>>

EndSessionNeverCalled == \A i \in 1..Len(actions) : actions[i].tool # "end_session"

\* C4: when run_session returns after tool calls on every turn and no
\* end_session call, it has performed exactly MAX_TURNS turns and the session's
\* row is ended with the turn-limit summary and the whole action log, which
\* holds at least MAX_TURNS Actions.
C4_TurnLimitPersisted ==
    (pc = "returned" /\ ToolCallEveryTurn /\ EndSessionNeverCalled) =>
        /\ turn = MAX_TURNS
        /\ Len(messages) = 2 * MAX_TURNS
        /\ Row.ended_at # Null
        /\ Row.summary = Some("Session ended at turn limit.")
        /\ JsonLoads(Row.actions_json) = actions
        /\ Len(actions) >= MAX_TURNS

\* C4's case: such a session returned with more Actions than turns
C4_Witness ==
    /\ pc = "returned"
    /\ ToolCallEveryTurn
    /\ EndSessionNeverCalled
    /\ Len(actions) > MAX_TURNS
    /\ Row.ended_at # Null

\* C5 as stated: whenever run_session has returned and the session's row is
\* ended, the returned summary is the stored summary.
C5_ReturnedIsStored ==
    (pc = "returned" /\ Row.ended_at # Null) => result = Row.summary

\* the end_session calls of the log that carry a summary argument
SummaryCalls ==
    SelectSeq(actions, LAMBDA a : a.tool = "end_session" /\ \E p \in a.inputs : p[1] = "summary")

SummaryOf(a) == (CHOOSE p \in a.inputs : p[1] = "summary")[2]

\* C6: whenever run_session has returned it has returned a string: the summary
\* argument of an end_session call (of the last one that carried a summary) if
\* there was one, the placeholder otherwise.
C6_AlwaysReturnsSummary ==
    pc = "returned" =>
        /\ result # Null
        /\ result[1] \in Summaries \cup {"Session ended without summary."}
        /\ IF SummaryCalls = <<>>
           THEN result[1] = "Session ended without summary."
           ELSE result[1] = SummaryOf(Last(SummaryCalls))

\* C6's case: two end_session calls carried different summaries and
\* run_session returned the later one
C6_Witness ==
    /\ pc = "returned"
    /\ Len(SummaryCalls) = 2
    /\ SummaryOf(SummaryCalls[1]) = "s1"
    /\ SummaryOf(SummaryCalls[2]) = "s2"
    /\ result = Some("s2")

\* the last dispatch_tool call was an end_session whose summary argument is
\* now the session summary
CapturedByLastCall ==
    /\ ret[1].name = "end_session"
    /\ \E p \in ret[1].inputs : p[1] = "summary" /\ session_summary = p[2]

\* C7 as stated: a tool call captures the session summary if and only if that
\* call sets the exit flag, and run_session returns an agent-supplied summary
\* only when the loop exited through the exit flag.
C7_CaptureIffExit ==
    /\ ret # Null => (CapturedByLastCall <=> ret[1].exit)
    /\ (pc = "returned" /\ result # Some("Session ended without summary."))
          => exit_requested

RECURSIVE ResultsIn(_)
\* the tool results of all the user messages of a history
ResultsIn(msgs) ==
    IF msgs = <<>> THEN 0
    ELSE (IF msgs[1].role = "user" THEN Len(msgs[1].content) ELSE 0) + ResultsIn(Tail(msgs))

\* the dispatch_tool calls made so far: those answered, and the one in progress
CallsMade ==
    ResultsIn(messages)
    + (IF pc \in {"batch", "handler"} THEN Len(tool_results) ELSE 0)
    + (IF pc = "handler" THEN 1 ELSE 0)

\* C8: each entry into the handler of a dispatch_tool call appends exactly the
\* Action {tool: name, inputs: inputs} of the call's block; the handler step
\* finds it last in the log and leaves the log alone; a result is only ever
\* produced by a handler step; the log only grows at its end; and the log holds
\* one Action per call made.
C8_ActionBeforeHandler ==
    /\ [](Len(actions) = CallsMade)
    /\ [][/\ (pc # "handler" /\ pc' = "handler") =>
                actions' = Append(actions, [tool |-> Block.name, inputs |-> Block.input])
          /\ pc = "handler" =>
                /\ actions' = actions
                /\ Last(actions) = [tool |-> Block.name, inputs |-> Block.input]
          /\ (tool_results' # tool_results /\ tool_results' # <<>>) => pc = "handler"
          /\ Len(actions') >= Len(actions)
          /\ SubSeq(actions', 1, Len(actions)) = actions]_vars

\* C8's case: the Action of a call to an unknown tool is in the log, after
\* that of a call whose handler raised, while its own handler has not run yet
C8_Witness ==
    /\ pc = "handler"
    /\ Block.name = "nonexistent_tool"
    /\ Len(actions) = 2
    /\ Last(actions).tool = "nonexistent_tool"
    /\ ret # Null
    /\ ret[1].exc # Null
    /\ Len(tool_results) = 1

\* C9: a dispatch_tool call with a name the dispatcher has no branch for
\* returns ("Unknown tool: {name}", False); no exception is raised in it or
\* leaves it.
C9_UnknownTool ==
    (ret # Null /\ ret[1].name \notin DispatchNames) =>
        /\ ret[1].text = "Unknown tool: " \o ret[1].name
        /\ ret[1].exit = FALSE
        /\ ret[1].exc = Null
        /\ ~ret[1].propagated

\* C9's case: nonexistent_tool was dispatched and answered
C9_Witness ==
    /\ ret # Null
    /\ ret[1].name = "nonexistent_tool"
    /\ ret[1].inputs = {}
    /\ tool_results # <<>>
    /\ Last(tool_results).content = "Unknown tool: nonexistent_tool"

\* the message of the exception the environment raised inside the handler of
\* call c (Null when the handler returned): the adapter failed, a required
\* input was missing, or end_session's persistence step failed
RaisedInHandler(c) ==
    IF c.name = "web_search" /\ c.outcome.handler = "raise" THEN Some("Boom")
    ELSE IF c.name = "end_session" /\ ~\E p \in c.inputs : p[1] = "summary"
    THEN Some("'summary'")
    ELSE IF c.name = "end_session" /\ c.outcome.db = "raise"
    THEN Some("database is locked")
    ELSE Null

\* C10: when the handler of a call raised an exception with message m,
\* dispatch_tool returned ("Tool error ({name}): m", False), no exception left
\* it, and the call's Action is in the log.
C10_HandlerErrorConverted ==
    (ret # Null /\ RaisedInHandler(ret[1]) # Null) =>
        /\ ret[1].text = "Tool error (" \o ret[1].name \o "): " \o RaisedInHandler(ret[1])[1]
        /\ ret[1].exit = FALSE
        /\ ret[1].exc = RaisedInHandler(ret[1])
        /\ ~ret[1].propagated
        /\ pc # "handler" =>
              Last(actions) = [tool |-> ret[1].name, inputs |-> ret[1].inputs]

\* C10's case: end_session's persistence step raised and the call was
\* answered with the tool error
C10_Witness ==
    /\ ret # Null
    /\ ret[1].name = "end_session"
    /\ ret[1].outcome.db = "raise"
    /\ tool_results # <<>>
    /\ Last(tool_results).content = "Tool error (end_session): database is locked"
    /\ Row.ended_at = Null

\* call c ended in a tool failure (an exception caught by dispatch_tool) or
\* named a tool the dispatcher does not know
FailedCall(c) == c.exc # Null \/ c.name \notin DispatchNames

\* C11: a dispatch_tool call that fails or names an unknown tool does not end
\* the loop: the step goes back into the batch with no exception and the exit
\* flag as it was, gives the call its result and moves to the next tool_use
\* block without skipping one; a batch is left only by appending a result for
\* each of its tool_use blocks; after the check, with the exit flag unset, the
\* loop head follows, and while turns remain the loop head issues a request.
\* So a session that returned after a tool_use response without the exit flag
\* used up all its turns.
C11_FailureKeepsLoop ==
    /\ [](pc = "returned" /\ stop_reason = Some("tool_use") /\ ~exit_requested
            => turn = MAX_TURNS)
    /\ [][/\ (pc = "handler" /\ ret' # Null /\ FailedCall(ret'[1])) =>
                /\ pc' = "batch"
                /\ error' = Null
                /\ exit_requested' = exit_requested
                /\ tool_results' # tool_results
                /\ Len(tool_results') = Len(tool_results) + 1
                /\ idx' > idx
                /\ \A j \in (idx + 1)..Len(Content) :
                      j < idx' => Content[j].type # "tool_use"
          /\ pc = "batch" =>
                /\ pc' \in {"handler", "check"}
                /\ pc' = "check" =>
                      /\ Last(messages').content = tool_results
                      /\ Len(tool_results) = Len(ToolUsesOf(Content))
          /\ (pc = "check" /\ ~exit_requested) => pc' = "request"
          /\ (pc = "request" /\ turn < MAX_TURNS) => turn' = turn + 1]_vars

\* C11's case: the first batch held an unknown tool and a failing handler, and
\* the next completion request was issued and answered
C11_Witness ==
    /\ turn = 2
    /\ Len(messages) >= 3
    /\ messages[2].role = "user"
    /\ Len(messages[2].content) = 2
    /\ messages[2].content[1].content = "Unknown tool: nonexistent_tool"
    /\ messages[2].content[2].content = "Tool error (web_search): Boom"
    /\ messages[3].role = "assistant"

\* C12: when end_session was dispatched with a summary and mem.end_session
\* committed, a raising push_session_summary leaves the outcome as it is with a
\* successful push: dispatch_tool returned (summary, True), nothing was caught
\* by its except clause, and the row is ended with that summary.
C12_PushFailureHarmless ==
    (/\ ret # Null
     /\ ret[1].name = "end_session"
     /\ \E p \in ret[1].inputs : p[1] = "summary"
     /\ ret[1].outcome.db = "ok"
     /\ ret[1].outcome.push = "raise") =>
        /\ ret[1].text = SummaryOf(ret[1])
        /\ ret[1].exit = TRUE
        /\ ret[1].exc = Null
        /\ ~ret[1].propagated
        /\ Row.ended_at # Null
        /\ Row.summary = Some(SummaryOf(ret[1]))

\* C12's case: the session ended through an end_session call whose push raised
C12_Witness ==
    /\ pc = "returned"
    /\ exit_requested
    /\ ret # Null
    /\ ret[1].name = "end_session"
    /\ ret[1].outcome.db = "ok"
    /\ ret[1].outcome.push = "raise"
    /\ published = <<>>
    /\ result = Some("s1")
    /\ Row.summary = Some("s1")

\* C13: dispatch_tool returned should_exit = True exactly when the call was
\* end_session and mem.end_session committed during it (the call wrote the
\* session's row); whenever it returned True the row has ended_at set and the
\* summary the call was given; for every other tool name it returned False.
C13_ExitIffPersisted ==
    /\ [](ret # Null =>
            /\ ret[1].exit <=>
                  /\ ret[1].name = "end_session"
                  /\ \E p \in ret[1].inputs : p[1] = "summary"
                  /\ ret[1].outcome.db = "ok"
            /\ ret[1].exit =>
                  /\ Row.ended_at # Null
                  /\ Row.summary = Some(SummaryOf(ret[1]))
            /\ ret[1].name # "end_session" => ret[1].exit = FALSE)
    /\ [][pc = "handler" =>
            /\ ret'[1].exit <=> sessions' # sessions
            /\ ret'[1].exit => sessions'[session_id].ended_at = Some(clock)]_vars

\* C13's case: after a web_search call that returned False, an end_session
\* call with summary s2 persisted the session and returned True
C13_Witness ==
    /\ pc = "batch"
    /\ ret # Null
    /\ ret[1].name = "end_session"
    /\ ret[1].exit
    /\ Len(actions) = 2
    /\ actions[1].tool = "web_search"
    /\ Len(tool_results) = 2
    /\ Row.summary = Some("s2")

\* C14: a response whose stop reason is not tool_use is appended to the
\* history and run_session returns in the same step: no Action, no tool
\* result, no dispatch_tool call, no write to the sessions table and no publish
\* happen for it, the history ends with that response, and nothing follows the
\* return.
C14_OtherStopReturns ==
    /\ [](pc = "returned" /\ stop_reason # Some("tool_use") =>
            /\ Last(messages).role = "assistant"
            /\ Len(actions) = ResultsIn(messages)
            /\ turn <= MAX_TURNS)
    /\ [][/\ (pc = "request" /\ messages' # messages /\ stop_reason' # Some("tool_use")) =>
                /\ pc' = "returned"
                /\ Len(messages') = Len(messages) + 1
                /\ SubSeq(messages', 1, Len(messages)) = messages
                /\ Last(messages').role = "assistant"
                /\ result' = Some(session_summary)
                /\ turn' = turn + 1
                /\ UNCHANGED <<actions, sessions, published, clock, tool_results, ret,
                               session_summary>>
          /\ pc = "returned" => (turn' = turn /\ messages' = messages)]_vars

\* C14's case: a max_tokens response holding an end_session tool_use block was
\* appended and run_session returned without dispatching it
C14_Witness ==
    /\ pc = "returned"
    /\ stop_reason = Some("max_tokens")
    /\ Len(messages) = 1
    /\ Len(messages[1].content) = 1
    /\ messages[1].content[1].name = "end_session"
    /\ messages[1].content[1].input = {<<"summary", "s1">>}
    /\ actions = <<>>
    /\ ret = Null
    /\ Row.ended_at = Null
    /\ result = Some("Session ended without summary.")

\* C15: when run_session returned because the turns were used up and no Action
\* was recorded, nothing was persisted: the row still has ended_at NULL,
\* summary NULL and the actions_json of its INSERT, and no timestamp was taken
\* after the session's start.
C15_IdleTurnLimit ==
    (/\ pc = "returned"
     /\ turn = MAX_TURNS
     /\ stop_reason = Some("tool_use")
     /\ ~exit_requested
     /\ actions = <<>>) =>
        /\ Row.ended_at = Null
        /\ Row.summary = Null
        /\ Row.actions_json = <<>>
        /\ clock = Row.started_at + 1
        /\ published = <<>>

\* C15's case: MAX_TURNS tool_use responses without a tool_use block, each
\* answered with an empty tool-results message
C15_Witness ==
    /\ pc = "returned"
    /\ turn = MAX_TURNS
    /\ stop_reason = Some("tool_use")
    /\ actions = <<>>
    /\ Len(messages) = 2 * MAX_TURNS
    /\ Last(messages).role = "user"
    /\ Last(messages).content = <<>>
    /\ Row.ended_at = Null

\* the ids of the sessions rows whose ended_at is NULL
OpenSessions == {i \in 1..Len(sessions) : sessions[i].ended_at = Null}

\* C16 as stated: at most one row of the sessions table has ended_at NULL, in
\* every state reached by running sessions one after another.
C16_AtMostOneOpen == Cardinality(OpenSessions) <= 1

\* C17 as stated: when run_session has returned and the session's row is
\* ended, the stored actions are the whole in-memory action log.
C17_StoredActionsComplete ==
    (pc = "returned" /\ Row.ended_at # Null) => JsonLoads(Row.actions_json) = actions

\* the Actions of the tool_use blocks among the first n blocks of a response
ActionsOf(content, n) ==
    LET uses == ToolUsesOf(SubSeq(content, 1, n))
    IN  [i \in 1..Len(uses) |-> [tool |-> uses[i].name, inputs |-> uses[i].input]]

\* how many blocks of message k have been reached by the for loop: all of an
\* answered response, those up to the call in progress of the response being
\* processed, none of a response that was not a tool_use response
BlocksReached(k) ==
    IF messages[k].role # "assistant" THEN 0
    ELSE IF k < Len(messages) THEN Len(messages[k].content)
    ELSE IF stop_reason # Some("tool_use") THEN 0
    ELSE IF pc = "handler" THEN idx
    ELSE IF pc = "batch" THEN idx - 1
    ELSE Len(messages[k].content)

RECURSIVE RequestedLog(_)
\* the Actions the model requested in messages 1..k, turn by turn and block by
\* block, as far as the for loop has reached
RequestedLog(k) ==
    IF k = 0 THEN <<>>
    ELSE RequestedLog(k - 1)
         \o (IF messages[k].role = "assistant"
             THEN ActionsOf(messages[k].content, BlocksReached(k))
             ELSE <<>>)

\* C18: the action log is at every moment the sequence of the tool_use blocks
\* reached so far, in the order of the responses and of the blocks within each
\* response; calls are made one at a time (a call's handler runs before the
\* next Action is appended) and results are collected in the same order.
C18_LogInRequestOrder ==
    /\ [](actions = RequestedLog(Len(messages)))
    /\ [](pc \in {"batch", "handler"} =>
            \A i \in 1..Len(tool_results) :
               tool_results[i].tool_use_id = ToolUsesOf(Content)[i].id)
    /\ [][/\ Len(actions') <= Len(actions) + 1
          /\ actions' # actions => (pc = "batch" /\ pc' = "handler")
          /\ pc = "handler" => Len(tool_results') = Len(tool_results) + 1]_vars

\* C18's case: three different calls over two turns are in the log in the
\* order they were requested
C18_Witness ==
    /\ pc = "returned"
    /\ turn = 2
    /\ Len(actions) = 3
    /\ actions[1].tool = "web_search"
    /\ actions[2].tool = "nonexistent_tool"
    /\ actions[3].tool = "end_session"
    /\ Len(messages[1].content) = 1
    /\ Len(messages[3].content) = 2

\* the rows with a given id, and the index entries of a given id
RowsOf(id) == {i \in 1..Len(memories) : memories[i].id = id}
EntriesOf(id) == {e \in chroma : ParseInt(e.id) = id}

\* C19: after remember(category, content, v) the row it inserted holds
\* importance 1 when v < 1, 5 when v > 5 and v otherwise, and the index entry
\* it added (when the index did not raise) holds the same value; every row and
\* every index entry has an importance in 1..5.
C19_ImportanceClamped ==
    /\ (mem_ret # Null /\ mem_ret[1].op = "remember") =>
          LET c == mem_ret[1]
              v == c.importance
              want == IF v < 1 THEN 1 ELSE IF v > 5 THEN 5 ELSE v
          IN  /\ RowsOf(c.id) # {}
              /\ \A i \in RowsOf(c.id) : memories[i].importance = want
              /\ ~c.raised =>
                    /\ EntriesOf(c.id) # {}
                    /\ \A e \in EntriesOf(c.id) : e.metadata.importance = want
    /\ \A i \in 1..Len(memories) : memories[i].importance \in 1..5
    /\ \A e \in chroma : e.metadata.importance \in 1..5

\* C19's case: remember was called with an importance below the range and
\* then with one above it, and both memories are stored and indexed
C19_Witness ==
    /\ mem_ret # Null
    /\ mem_ret[1].op = "remember"
    /\ mem_ret[1].importance = 9
    /\ ~mem_ret[1].raised
    /\ Len(memories) = 2
    /\ memories[1].importance = 1
    /\ memories[2].importance = 5
    /\ Cardinality(chroma) = 2

\* C20: as long as no semantic-index operation has raised, the ids of the
\* memories table are the ids of the index (read back as integers), no id
\* occurs twice on either side, and the entry of each id holds the content,
\* category and importance of the row with that id.
C20_IndexMatchesRows ==
    ~index_failed =>
        /\ {memories[i].id : i \in 1..Len(memories)} = {ParseInt(e.id) : e \in chroma}
        /\ Cardinality(chroma) = Len(memories)
        /\ \A i \in 1..Len(memories) :
              \A e \in chroma :
                 e.id = ToString(memories[i].id) =>
                    /\ e.document = memories[i].content
                    /\ e.metadata.category = memories[i].category
                    /\ e.metadata.importance = memories[i].importance

\* C20's case: two memories were stored and the first was deleted, every
\* index operation having succeeded
C20_Witness ==
    /\ ~index_failed
    /\ mem_seq = 2
    /\ mem_ret # Null
    /\ mem_ret[1].op = "delete_memory"
    /\ mem_ret[1].deleted
    /\ mem_ret[1].id = 1
    /\ Len(memories) = 1
    /\ memories[1].id = 2
    /\ Cardinality(chroma) = 1

\* the last memory-store call was op, and it returned
ReturnedFrom(op) ==
    /\ mem_ret # Null
    /\ mem_ret[1].op = op
    /\ mem_out[1].kind = "return"

\* C21: a delete_memory(id) step returns (it never raises), returns True
\* exactly when the table held a row with that id before the step, leaves no
\* row with that id and every other row in place, whether or not the index
\* deletion raised; and a delete_memory that follows a delete_memory of the
\* same id returns False.
C21_DeleteReportsExistence ==
    [][(mem_ret' # Null /\ mem_ret'[1].op = "delete_memory") =>
          LET id == mem_ret'[1].id
              existed == \E i \in 1..Len(memories) : memories[i].id = id
          IN  /\ mem_out'[1].kind = "return"
              /\ mem_out'[1].value = existed
              /\ \A i \in 1..Len(memories') : memories'[i].id # id
              /\ memories' = SelectSeq(memories, LAMBDA r : r.id # id)
              /\ (/\ mem_ret # Null
                  /\ mem_ret[1].op = "delete_memory"
                  /\ mem_ret[1].id = id) => mem_out'[1].value = FALSE]_<<memvars, clock>>

\* C21's case: delete_memory removed a row and returned True although the
\* index deletion raised; the index still holds the entry
C21_Witness ==
    /\ ReturnedFrom("delete_memory")
    /\ mem_ret[1].raised
    /\ mem_out[1].value = TRUE
    /\ RowsOf(mem_ret[1].id) = {}
    /\ EntriesOf(mem_ret[1].id) # {}

\* C22 as stated: every hit recall returned has the id of a row of the
\* memories table and that row's category, content and importance.
C22_HitsAreRows ==
    ReturnedFrom("recall") =>
        \A k \in 1..Len(mem_out[1].value) :
           LET h == mem_out[1].value[k]
           IN  \E i \in 1..Len(memories) :
                  /\ memories[i].id = h.id
                  /\ memories[i].category = h.category
                  /\ memories[i].content = h.content
                  /\ memories[i].importance = h.importance

\* the characters of the strings memories and queries are made of
Chars(s) ==
    CASE s = "sky" -> <<"s", "k", "y">>
      [] s = "sea" -> <<"s", "e", "a">>
      [] s = "SKY" -> <<"S", "K", "Y">>
      [] s = "fact" -> <<"f", "a", "c", "t">>
      [] s = "goal" -> <<"g", "o", "a", "l">>

LowerChar(c) ==
    CASE c = "S" -> "s" [] c = "K" -> "k" [] c = "Y" -> "y" [] OTHER -> c

Lower(cs) == [i \in 1..Len(cs) |-> LowerChar(cs[i])]

\* needle is a substring of hay, letter case aside
ContainsNoCase(hay, needle) ==
    LET h == Lower(Chars(hay))
        n == Lower(Chars(needle))
    IN  \E i \in 1..(Len(h) - Len(n) + 1) : SubSeq(h, i, i + Len(n) - 1) = n

\* the relational answer to a query: the rows whose content or category
\* contains it, by importance descending then id descending, at most limit
RelationalMatches(query, limit) ==
    LET m == SelectSeq(memories, LAMBDA r : \/ ContainsNoCase(r.content, query)
                                            \/ ContainsNoCase(r.category, query))
        s == SubSeq(OrderRows(m), 1, IF limit < Len(m) THEN limit ELSE Len(m))
    IN  [i \in 1..Len(s) |->
            [id |-> s[i].id, category |-> s[i].category, content |-> s[i].content,
             importance |-> s[i].importance]]

\* C23 as stated: when the index is empty, recall(query, limit) returns the
\* relational answer to the query.
C23_FallbackWhenIndexEmpty ==
    (ReturnedFrom("recall") /\ chroma = {}) =>
        mem_out[1].value = RelationalMatches(mem_ret[1].query, mem_ret[1].limit)

\* C24: when the memories table and the index are both empty and the index
\* works, recall returns the empty list, no exception leaves it, and the
\* recall tool's text is "No memories found matching that query.".
C24_RecallOnEmptyStore ==
    (/\ mem_ret # Null
     /\ mem_ret[1].op = "recall"
     /\ ~mem_ret[1].raised
     /\ memories = <<>>
     /\ chroma = {}) =>
        /\ mem_out[1].kind = "return"
        /\ mem_out[1].value = <<>>
        /\ mem_out[1].text = "No memories found matching that query."

\* C24's case: recall was called on the store as init_db leaves it
C24_Witness ==
    /\ ReturnedFrom("recall")
    /\ mem_seq = 0
    /\ memories = <<>>
    /\ chroma = {}
    /\ mem_out[1].text = "No memories found matching that query."

\* the rows whose remember succeeded in the index and that were not deleted
IndexedRows ==
    {i \in 1..Len(memories) : \E e \in chroma : e.id = ToString(memories[i].id)}

\* C25: recall never returns more than limit hits, and when limit is at least
\* the number of index entries, every memory that was remembered with success
\* and not deleted since is among the hits with its content and category.
C25_RememberThenRecall ==
    ReturnedFrom("recall") =>
        /\ Len(mem_out[1].value) <= mem_ret[1].limit
        /\ mem_ret[1].limit >= Cardinality(chroma) =>
              \A i \in IndexedRows :
                 \E k \in 1..Len(mem_out[1].value) :
                    /\ mem_out[1].value[k].id = memories[i].id
                    /\ mem_out[1].value[k].content = memories[i].content
                    /\ mem_out[1].value[k].category = memories[i].category

\* C25's case: "sky" (a fact) and "sea" were remembered and recall with the
\* default limit returned both
C25_Witness ==
    /\ ReturnedFrom("recall")
    /\ mem_ret[1].query = "SKY"
    /\ mem_ret[1].limit = 20
    /\ Len(memories) = 2
    /\ memories[1].category = "fact"
    /\ memories[1].content = "sky"
    /\ memories[2].content = "sea"
    /\ Len(mem_out[1].value) = 2
    /\ \E k \in 1..2 : /\ mem_out[1].value[k].content = "sky"
                       /\ mem_out[1].value[k].category = "fact"

\* C26: get_all_memories(limit) returns min(limit, number of rows) different
\* rows of the memories table, each before the next by importance descending
\* then id descending, and no row left out comes before a returned one; the
\* index has no part in it.
C26_GetAllIsRelational ==
    ReturnedFrom("get_all_memories") =>
        LET res == mem_out[1].value
            n == Len(res)
        IN  /\ n = (IF mem_ret[1].limit < Len(memories) THEN mem_ret[1].limit
                    ELSE Len(memories))
            /\ \A k \in 1..n : \E i \in 1..Len(memories) : memories[i] = res[k]
            /\ \A k \in 1..(n - 1) :
                  \/ res[k].importance > res[k + 1].importance
                  \/ /\ res[k].importance = res[k + 1].importance
                     /\ res[k].id > res[k + 1].id
            /\ \A i \in 1..Len(memories) :
                  (\A k \in 1..n : res[k] # memories[i]) =>
                     \A k \in 1..n :
                        \/ res[k].importance > memories[i].importance
                        \/ /\ res[k].importance = memories[i].importance
                           /\ res[k].id > memories[i].id

\* C26's case: two rows of equal importance came back newest first while the
\* index held only one of them
C26_Witness ==
    /\ ReturnedFrom("get_all_memories")
    /\ Len(mem_out[1].value) = 2
    /\ mem_out[1].value[1].importance = mem_out[1].value[2].importance
    /\ mem_out[1].value[1].id = 2
    /\ mem_out[1].value[2].id = 1
    /\ Cardinality(chroma) = 1

\* C27: when the index insertion of remember raised, that exception left
\* remember, and the row remember inserted is in the table, with the clamped
\* importance, while the index has no entry of its id.
C27_IndexFailurePropagates ==
    (mem_ret # Null /\ mem_ret[1].op = "remember" /\ mem_ret[1].raised) =>
        /\ mem_out[1].kind = "raise"
        /\ mem_out[1].value = "index unavailable"
        /\ Cardinality(RowsOf(mem_ret[1].id)) = 1
        /\ \A i \in RowsOf(mem_ret[1].id) :
              /\ memories[i].category = mem_ret[1].category
              /\ memories[i].content = mem_ret[1].content
        /\ EntriesOf(mem_ret[1].id) = {}

\* C27's case: the second remember's index insertion raised; the table holds
\* two rows and the index one entry
C27_Witness ==
    /\ mem_ret # Null
    /\ mem_ret[1].op = "remember"
    /\ mem_ret[1].raised
    /\ mem_ret[1].id = 2
    /\ Len(memories) = 2
    /\ Cardinality(chroma) = 1
    /\ mem_out[1].kind = "raise"

\* the day number YYYYMMDD of a date
DayNumber(d) == d[1] * 10000 + d[2] * 100 + d[3]

\* the last reminder call was op
RemCall(op) == rem_ret # Null /\ rem_ret[1].op = op

\* reminder row r is due on day t and not triggered
DueOn(r, t) == DayNumber(r.due_date) <= DayNumber(t) /\ r.triggered_at = Null

\* C28: what get_due_reminders(today) returned holds each row with
\* due_date <= today and triggered_at NULL exactly once and nothing else, in
\* ascending order of due date; and the call leaves the table as it was.
C28_DueReminders ==
    /\ [](RemCall("get_due_reminders") =>
            LET res == rem_out[1]
                today == rem_ret[1].today
            IN  /\ \A k \in 1..Len(res) :
                      /\ \E i \in 1..Len(reminders) : reminders[i] = res[k]
                      /\ DueOn(res[k], today)
                /\ \A i \in 1..Len(reminders) :
                      DueOn(reminders[i], today) =>
                         Cardinality({k \in 1..Len(res) : res[k] = reminders[i]}) = 1
                /\ \A k \in 1..(Len(res) - 1) :
                      DayNumber(res[k].due_date) <= DayNumber(res[k + 1].due_date))
    /\ [][(rem_ret' # Null /\ rem_ret'[1].op = "get_due_reminders")
            => reminders' = reminders]_<<remvars, clock>>

\* C28's case: of two untriggered reminders, the one set later is due earlier;
\* get_due_reminders of the later day returned both, earliest first
C28_Witness ==
    /\ RemCall("get_due_reminders")
    /\ rem_ret[1].today = <<2099, 1, 2>>
    /\ Len(reminders) = 2
    /\ reminders[1].due_date = <<2099, 1, 2>>
    /\ reminders[2].due_date = <<2099, 1, 1>>
    /\ Len(rem_out[1]) = 2
    /\ rem_out[1][1].id = 2
    /\ rem_out[1][2].id = 1

\* C29 as stated: a mark_reminders_triggered call whose ids are all of
\* reminders that are already triggered, or whose list is empty, leaves the
\* reminders table unchanged.
C29_RemarkIsNoOp ==
    [][(/\ rem_ret' # Null
        /\ rem_ret'[1].op = "mark_reminders_triggered"
        /\ \A i \in 1..Len(reminders) :
              reminders[i].id \in rem_ret'[1].ids => reminders[i].triggered_at # Null)
          => reminders' = reminders]_<<remvars, clock>>

\* C30: a get_due_reminders(t) result includes every reminder with
\* due_date <= t whose triggered_at is NULL and no reminder whose triggered_at
\* is set; triggered_at is set only by a mark_reminders_triggered call that
\* names the reminder's id, and once set it is never NULL again; no reminder is
\* removed and no due date changes.
C30_DueUntilTriggered ==
    /\ [](RemCall("get_due_reminders") =>
            /\ \A i \in 1..Len(reminders) :
                  (/\ reminders[i].triggered_at = Null
                   /\ DayNumber(rem_ret[1].today) >= DayNumber(reminders[i].due_date))
                     => \E k \in 1..Len(rem_out[1]) : rem_out[1][k].id = reminders[i].id
            /\ \A i \in 1..Len(reminders) :
                  reminders[i].triggered_at # Null =>
                     \A k \in 1..Len(rem_out[1]) : rem_out[1][k].id # reminders[i].id)
    /\ [][\A i \in 1..Len(reminders) :
             /\ i <= Len(reminders')
             /\ reminders'[i].id = reminders[i].id
             /\ reminders'[i].due_date = reminders[i].due_date
             /\ reminders[i].triggered_at # Null => reminders'[i].triggered_at # Null
             /\ (reminders[i].triggered_at = Null /\ reminders'[i].triggered_at # Null) =>
                   /\ rem_ret'[1].op = "mark_reminders_triggered"
                   /\ reminders[i].id \in rem_ret'[1].ids]_<<remvars, clock>>

\* C30's case: reminder 1 was due, was marked triggered, and a later
\* get_due_reminders for a day after its due date returned reminder 2 only
C30_Witness ==
    /\ RemCall("get_due_reminders")
    /\ Len(reminders) = 2
    /\ reminders[1].triggered_at # Null
    /\ reminders[2].triggered_at = Null
    /\ DayNumber(reminders[1].due_date) < DayNumber(rem_ret[1].today)
    /\ Len(rem_out[1]) = 1
    /\ rem_out[1][1].id = 2

\* the ids of the reminders surfaced by the first n prepared sessions
SurfacedBy(n) == UNION {{surfaced[k][i].id : i \in 1..Len(surfaced[k])} : k \in 1..n}

\* C31: no reminder is in the due_reminders lists of two prepared sessions (nor
\* twice in one); every surfaced reminder is marked triggered in the table by
\* the time its list is passed on; and the due reminders that a later
\* _run_one_session reads hold no reminder that an earlier one surfaced.
C31_SurfacedOnce ==
    /\ \A k \in 1..Len(surfaced) :
          /\ \A i, j \in 1..Len(surfaced[k]) :
                i # j => surfaced[k][i].id # surfaced[k][j].id
          /\ \A i \in 1..Len(surfaced[k]) :
                /\ surfaced[k][i].id \notin SurfacedBy(k - 1)
                /\ \E r \in 1..Len(reminders) :
                      /\ reminders[r].id = surfaced[k][i].id
                      /\ reminders[r].triggered_at # Null
    /\ RemCall("_run_one_session") =>
          \A i \in 1..Len(rem_out[1]) :
             rem_out[1][i].id \notin
                SurfacedBy(IF rem_ret[1].raised THEN Len(surfaced) ELSE Len(surfaced) - 1)

\* C31's case: reminder 1 was surfaced by the first session; the second
\* session, on a day on which reminder 1's due date has passed too, surfaced
\* reminder 2 only
C31_Witness ==
    /\ RemCall("_run_one_session")
    /\ ~rem_ret[1].raised
    /\ Len(surfaced) = 2
    /\ Len(surfaced[1]) = 1
    /\ surfaced[1][1].id = 1
    /\ Len(surfaced[2]) = 1
    /\ surfaced[2][1].id = 2
    /\ DayNumber(reminders[1].due_date) <= DayNumber(wall_date)

\* the last post call was op
PostCall(op) == post_ret # Null /\ post_ret[1].op = op

\* C32: the posts table never holds two rows with the same slug; a save_post
\* that commits with a slug that is stored adds no row, leaves that row with
\* the content_md of the call (and its id and slug) and every other row as it
\* was; with a slug that is not stored it adds one row with that slug and
\* content and leaves the others as they were.
C32_SavePostUpserts ==
    /\ [](\A i, j \in 1..Len(posts) : posts[i].slug = posts[j].slug => i = j)
    /\ [][(/\ post_ret' # Null
           /\ post_ret'[1].op = "save_post"
           /\ ~post_ret'[1].raised)
             => LET c == post_ret'[1]
                IN  IF \E i \in 1..Len(posts) : posts[i].slug = c.slug
                    THEN /\ Len(posts') = Len(posts)
                         /\ \A i \in 1..Len(posts) :
                               IF posts[i].slug = c.slug
                               THEN /\ posts'[i].content_md = c.content_md
                                    /\ posts'[i].slug = c.slug
                                    /\ posts'[i].id = posts[i].id
                               ELSE posts'[i] = posts[i]
                    ELSE /\ Len(posts') = Len(posts) + 1
                         /\ posts'[Len(posts')].slug = c.slug
                         /\ posts'[Len(posts')].content_md = c.content_md
                         /\ \A i \in 1..Len(posts) : posts'[i] = posts[i]]_<<postvars, clock>>

\* C32's case: a post saved as "Sky" with content v1 was saved again under the
\* same slug with another title and content v2: still one row, now with v2
C32_Witness ==
    /\ PostCall("save_post")
    /\ ~post_ret[1].raised
    /\ post_ret[1].title = "SKY"
    /\ post_ret[1].content_md = "v2"
    /\ post_ret[1].value = Some(0)
    /\ Len(posts) = 1
    /\ posts[1].title = "Sky"
    /\ posts[1].content_md = "v2"
    /\ posts[1].published_at > 1

\* the rows of the emails table with message_id mid
EmailsOf(tbl, mid) == {i \in 1..Len(tbl) : tbl[i].message_id = mid}

\* C33: the emails table never holds two rows with the same message_id, and a
\* read_inbox step leaves every row that was stored exactly as it was (body,
\* received_at, replied_at and reply_body included), whatever the listing says
\* about its message; it adds one row, without a reply, for each listed
\* message_id that was not stored.
C33_InsertIfAbsent ==
    /\ [](\A i, j \in 1..Len(emails) : emails[i].message_id = emails[j].message_id => i = j)
    /\ [][(/\ mail_ret' # Null
           /\ mail_ret'[1].op = "read_inbox"
           /\ ~mail_ret'[1].raised)
             => LET msgs == mail_ret'[1].msgs
                    listed == {msgs[k].message_id : k \in 1..Len(msgs)}
                    new == {mid \in listed : EmailsOf(emails, mid) = {}}
                IN  /\ Len(emails') = Len(emails) + Cardinality(new)
                    /\ \A i \in 1..Len(emails) : emails'[i] = emails[i]
                    /\ \A mid \in new :
                          \E i \in EmailsOf(emails', mid) :
                             /\ emails'[i].replied_at = Null
                             /\ emails'[i].reply_body = Null
                             /\ \E k \in 1..Len(msgs) :
                                   /\ msgs[k].message_id = mid
                                   /\ emails'[i].body = msgs[k].body]_<<mailvars, clock>>

\* C33's case: m1 was read, replied to, and then listed again with another
\* body: its row still has the first body and the reply
C33_Witness ==
    /\ mail_ret # Null
    /\ mail_ret[1].op = "read_inbox"
    /\ ~mail_ret[1].raised
    /\ Len(mail_ret[1].msgs) = 1
    /\ mail_ret[1].msgs[1] = Message("m1", "hello (edited)", "t2")
    /\ Len(emails) = 1
    /\ emails[1].body = "hello"
    /\ emails[1].replied_at # Null
    /\ emails[1].reply_body = Some("thanks")

\* the names TOOLS advertises
Advertised == {TOOLS[i] : i \in 1..Len(TOOLS)}

\* C34: no two entries of TOOLS have the same name; the if/elif chain of
\* dispatch_tool has branches for names of TOOLS only; and a dispatch_tool
\* call took the else branch ("Unknown tool: ...") exactly when its name is
\* not in TOOLS.
C34_ToolsMatchDispatcher ==
    /\ \A i, j \in 1..Len(TOOLS) : TOOLS[i] = TOOLS[j] => i = j
    /\ \A i \in 1..Len(Branches) : Branches[i] \in Advertised
    /\ tool_ret # Null =>
          /\ tool_ret[1].name \in Advertised <=> tool_ret[1].branch # 0
          /\ tool_ret[1].name \in Advertised =>
                tool_ret[1].text # UnknownToolText(tool_ret[1].name)
          /\ tool_ret[1].name \notin Advertised =>
                tool_ret[1].text = UnknownToolText(tool_ret[1].name)

\* C34's case: dispatch_tool was called with the advertised name set_reminder
\* and its sixteenth branch took it
C34_Witness ==
    /\ tool_ret # Null
    /\ tool_ret[1].name = "set_reminder"
    /\ tool_ret[1].branch = 16
    /\ tool_ret[1].text = "result of set_reminder"

\* C35: what get_tools returned is the specs of the registrations made until
\* then, in registration order, and what get_dispatch returned maps the name
\* of each of them to the handler registered with it and has no other key.
C35_RegistryOrder ==
    reg_ret # Null =>
       LET tools == reg_ret[1].tools
           dispatch == reg_ret[1].dispatch
       IN  /\ Len(tools) <= Len(registry)
           /\ \A i \in 1..Len(tools) :
                 /\ tools[i] = registry[i].spec
                 /\ HasKey(dispatch, tools[i].name)
                 /\ \A p \in dispatch : p[1] = tools[i].name => p[2] = registry[i].fn
           /\ \A p \in dispatch : \E i \in 1..Len(tools) : tools[i].name = p[1]

\* C35's case: download_file, remember and run_python were registered in this
\* order, and the registry's mapping gives run_python the handler of
\* code_runner, not the like-named one of downloader
C35_Witness ==
    /\ reg_ret # Null
    /\ Len(reg_ret[1].tools) = 3
    /\ reg_ret[1].tools[1].name = "download_file"
    /\ reg_ret[1].tools[2].name = "remember"
    /\ reg_ret[1].tools[3].name = "run_python"
    /\ <<"run_python", <<"code_runner", "_handle">>>> \in reg_ret[1].dispatch
    /\ <<"download_file", <<"downloader", "_handle">>>> \in reg_ret[1].dispatch

\* the last memory-store call was op
MemOp(op) == mem_ret # Null /\ mem_ret[1].op = op

\* C36: a process creates the client and the collection at most once, and has
\* the handle exactly when it has created them; a _get_chroma_col call returns
\* the handle the process holds; while the process lives the handle is never
\* replaced and nothing more is created; the creation removes no entry of the
\* index, and the index changes only in remember, delete_memory and init_db
\* steps (never in recall, which only calls _get_chroma_col and reads).
C36_HandleCreatedOnce ==
    /\ [](created <= 1)
    /\ [](chroma_col = Null <=> created = 0)
    /\ [](col_ret # Null => col_ret = chroma_col)
    /\ [][(chroma_col # Null /\ chroma_col' # Null)
            => (chroma_col' = chroma_col /\ created' = created)]_<<memvars, procvars, clock>>
    /\ [][/\ created' > created => chroma \subseteq chroma'
          /\ chroma' # chroma =>
                mem_ret'[1].op \in {"remember", "delete_memory", "init_db"}]_<<memvars, procvars, clock>>

\* C36's case: a new process ran init_db on an index that held an entry: this
\* call created the handle, the one of the process, and the entry is there
C36_Witness ==
    /\ MemOp("init_db")
    /\ mem_ret[1].first
    /\ ~mem_ret[1].raised
    /\ mem_out[1].value = <<>>
    /\ created = 1
    /\ col_ret = chroma_col
    /\ Cardinality(chroma) = 1
    /\ Len(memories) = 1

\* the rows that come before row i in get_all_memories' order
RowsBefore(i) == {j \in 1..Len(memories) : RowBefore(memories[j], memories[i])}

\* C37: after an init_db that returned, every row of memories among the first
\* SyncLimit in get_all_memories' order has an index entry with its id,
\* content, category and importance; an init_db step removes no entry and adds
\* entries only under ids the index did not hold, those it reports; and an
\* init_db that follows an init_db that returned leaves the index as it is.
C37_InitDbRepairs ==
    /\ []((MemOp("init_db") /\ ~mem_ret[1].raised) =>
            \A i \in 1..Len(memories) :
               Cardinality(RowsBefore(i)) < SyncLimit =>
                  \E e \in chroma :
                     /\ e.id = Str(memories[i].id)
                     /\ e.document = memories[i].content
                     /\ e.metadata.category = memories[i].category
                     /\ e.metadata.importance = memories[i].importance)
    /\ [][(/\ mem_ret' # Null
           /\ mem_ret'[1].op = "init_db"
           /\ ~mem_ret'[1].raised
           /\ chroma_col' # Null)
             => LET added == mem_out'[1].value
                IN  /\ chroma \subseteq chroma'
                    /\ {e.id : e \in chroma' \ chroma} = {added[i] : i \in 1..Len(added)}
                    /\ \A i \in 1..Len(added) : added[i] \notin ExistingIds(chroma)
                    /\ (MemOp("init_db") /\ ~mem_ret[1].raised) => chroma' = chroma
          ]_<<memvars, procvars, clock>>

\* C37's case: memory 1 is indexed, memory 2 was remembered while the index
\* failed; the init_db of the next process added an entry for memory 2 only
C37_Witness ==
    /\ MemOp("init_db")
    /\ ~mem_ret[1].raised
    /\ mem_ret[1].first
    /\ mem_out[1].value = <<"2">>
    /\ Len(memories) = 2
    /\ Cardinality(chroma) = 2

\* C38: no row and no index entry has an id above the largest id given out,
\* which never decreases; a remember step gives its row an id above that one,
\* so above the id of every row and of every index entry there is (orphans
\* included), and returns that id when it returns.
C38_IdsNeverReused ==
    /\ [](/\ \A i \in 1..Len(memories) : memories[i].id <= mem_seq
          /\ \A e \in chroma : ParseInt(e.id) <= mem_seq)
    /\ [][/\ mem_seq' >= mem_seq
          /\ (mem_ret' # Null /\ mem_ret'[1].op = "remember") =>
                LET new == memories'[Len(memories')]
                IN  /\ Len(memories') = Len(memories) + 1
                    /\ new.id = mem_ret'[1].id
                    /\ new.id > mem_seq
                    /\ \A i \in 1..Len(memories) : memories[i].id < new.id
                    /\ \A e \in chroma : e.id # Str(new.id) /\ ParseInt(e.id) < new.id
                    /\ mem_out'[1].kind = "return" => mem_out'[1].value = new.id
         ]_<<memvars, clock>>

\* C38's case: memory 1 was deleted while the index failed, leaving its entry
\* behind; the next remember returned id 2, and the index holds the orphan
\* under "1" and the new entry under "2"
C38_Witness ==
    /\ ReturnedFrom("remember")
    /\ mem_out[1].value = 2
    /\ Len(memories) = 1
    /\ memories[1].id = 2
    /\ EntriesOf(1) # {}
    /\ EntriesOf(2) # {}

\* C39: a delete_memory(id) step on a table with no row of that id returns
\* False, does not attempt the index deletion and leaves the table and the
\* index as they were, an orphan entry under that id included.
C39_DeleteOfMissingId ==
    [][(/\ mem_ret' # Null
        /\ mem_ret'[1].op = "delete_memory"
        /\ \A i \in 1..Len(memories) : memories[i].id # mem_ret'[1].id)
          => /\ mem_out'[1].kind = "return"
             /\ mem_out'[1].value = FALSE
             /\ ~mem_ret'[1].raised
             /\ memories' = memories
             /\ chroma' = chroma]_<<memvars, clock>>

\* C39's case: delete_memory of an id whose row is gone but whose index entry
\* was left behind returned False, and the entry is still there
C39_Witness ==
    /\ ReturnedFrom("delete_memory")
    /\ mem_out[1].value = FALSE
    /\ ~mem_ret[1].raised
    /\ RowsOf(mem_ret[1].id) = {}
    /\ EntriesOf(mem_ret[1].id) # {}

\* C40: the messages of the history are assistant, user, assistant, ... in
\* turn; whenever run_session is about to issue a completion request the
\* history holds two messages for each request made so far, one of them a
\* tool-result message; and when run_session has returned the last message is
\* the assistant response whose stop reason ended the loop, or the
\* tool-result message of the last batch.
C40_HistoryAlternates ==
    /\ \A i \in 1..Len(messages) :
          messages[i].role = IF i % 2 = 1 THEN "assistant" ELSE "user"
    /\ (pc = "request" /\ LoopHasNext(turn)) =>
          /\ Len(messages) = 2 * turn
          /\ Cardinality({i \in 1..Len(messages) : messages[i].role = "user"}) = turn
    /\ pc = "returned" =>
          /\ messages # <<>>
          /\ \/ /\ Last(messages).role = "assistant"
                /\ stop_reason # Some("tool_use")
                /\ Len(messages) = 2 * turn - 1
             \/ /\ Last(messages).role = "user"
                /\ stop_reason = Some("tool_use")
                /\ Last(messages).content = tool_results
                /\ Len(messages) = 2 * turn

\* C40's case: run_session returned after two tool turns, the second of which
\* asked to exit: four messages, the last one the results of that batch
C40_Witness ==
    /\ pc = "returned"
    /\ Len(messages) = 4
    /\ Last(messages).role = "user"
    /\ Last(messages).content # <<>>
    /\ exit_requested

====
